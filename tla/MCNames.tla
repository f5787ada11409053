------------------------------ MODULE MCNames ------------------------------
(***************************************************************************)
(* A small repository in each language, with the edits made to it.         *)
(***************************************************************************)
EXTENDS Resolution, TLC

At(dir, stem, ext) == [dir |-> dir, stem |-> stem, ext |-> ext]
Id(f, name, kind) == [file |-> f, name |-> name, kind |-> kind]
Function(f, n) == Id(f, <<n>>, "function")
Class(f, n) == Id(f, <<n>>, "class")
Method(f, c, n) == Id(f, <<c, n>>, "method")
Use(kind, name) == [kind |-> kind, name |-> name]
Src(symbols, refs) == [symbols |-> symbols, refs |-> refs]
None == [d \in {} |-> {}]

----------------------------------------------------------------------------
(* Python: a package with two ways to a name, a chain and a cycle of       *)
(* imports, a stub, and a Lua script beside it.                            *)

Init_ == At(<<"app">>, "__init__", "py")
Api == At(<<"app">>, "api", "py")
Models == At(<<"app">>, "models", "py")
Stub == At(<<"app">>, "models", "pyi")
Service == At(<<"app">>, "service", "py")
Script == At(<<"app">>, "tool", "lua")

PyFrom(dots, path, symbol, alias) ==
  [kind |-> "imports", dots |-> dots, path |-> path, symbol |-> symbol, alias |-> alias]

PyModels == <<Class(Models, "User"), Method(Models, "User", "save"), Function(Models, "helper")>>
PyService ==
  Src(<<Function(Service, "run")>>,
      <<PyFrom(0, <<"app">>, "User", ""), PyFrom(1, <<"models">>, "helper", "h"),
        PyFrom(0, <<"os">>, "*", ""), PyFrom(0, <<"app", "models">>, "*", "m"),
        PyFrom(1, <<>>, "api", ""), PyFrom(1, <<"models">>, "Ghost", ""),
        Use("calls", <<"User">>), Use("calls", <<"h">>), Use("calls", <<"m", "User">>),
        Use("calls", <<"print">>), Use("calls", <<"run">>), Use("calls", <<"missing">>),
        Use("uses_type", <<"User">>), Use("uses_type", <<"str">>), Use("calls", <<"os", "getcwd">>),
        Use("calls", <<"api", "Account">>)>>)
LuaScript(readable) ==
  [symbols |-> <<Function(Script, "go"), Function(Script, "go"), Id(Script, <<"M">>, "macro")>>,
   refs |-> <<Use("calls", <<"go">>), Use("calls", <<"User">>), Use("uses_type", <<"M">>)>>,
   readable |-> readable]

PythonProject ==
  [start |-> Init_ :> Src(<<>>, <<PyFrom(1, <<"models">>, "User", "")>>)
             @@ Models :> Src(PyModels, <<>>)
             @@ Service :> PyService @@ Script :> LuaScript(TRUE),
   versions |->
     Init_ :> {Src(<<>>, <<PyFrom(1, <<"models">>, "User", "")>>),
               Src(<<>>, <<PyFrom(1, <<"api">>, "Account", "User")>>),
               Src(<<>>, <<PyFrom(1, <<"api">>, "User", "")>>)}
     @@ Api :> {Src(<<>>, <<PyFrom(1, <<"models">>, "User", "Account")>>),
                Src(<<>>, <<PyFrom(0, <<"app">>, "User", "")>>)}
     @@ Models :> {Src(PyModels, <<>>), Src(<<Function(Models, "helper")>>, <<>>)}
     @@ Stub :> {Src(<<Class(Stub, "User"), Function(Stub, "helper")>>, <<>>)}
     @@ Script :> {LuaScript(TRUE), LuaScript(FALSE)},
   manifests |-> None]

----------------------------------------------------------------------------
(* Rust: a workspace of two crates, one of them a member with a library    *)
(* elsewhere in the tree, renamed where it is used.                        *)

Root_ == At(<<"core", "src">>, "lib", "rs")
RsModels == At(<<"core", "src", "models">>, "mod", "rs")
Main == At(<<"app", "src">>, "main", "rs")
Util == At(<<"app", "src">>, "util", "rs")
Tests == At(<<"app", "tests">>, "smoke", "rs")

RsUse(path, symbol, alias) ==
  [kind |-> "imports", path |-> path, symbol |-> symbol, alias |-> alias]
Manifest(name, members, renames) ==
  [name |-> name, lib |-> <<>>, targets |-> {}, renames |-> renames,
   members |-> members, excluded |-> {}]

RsLib == {Src(<<Function(Root_, "helper")>>, <<RsUse(<<"models">>, "User", "")>>),
          Src(<<Function(Root_, "helper")>>, <<RsUse(<<"crate", "models">>, "User", "Account")>>)}
RsTypes == {Src(<<Class(RsModels, "User"), Method(RsModels, "User", "new"),
                  Id(RsModels, <<"Kind", "Admin">>, "variant")>>, <<RsUse(<<"super">>, "helper", "")>>),
            Src(<<Class(RsModels, "User")>>, <<RsUse(<<"crate">>, "User", "")>>)}
RsUtil == Src(<<Function(Util, "tidy")>>, <<RsUse(<<"super">>, "start", ""), Use("calls", <<"start">>)>>)

RustProject ==
  [start |-> Root_ :> (CHOOSE s \in RsLib : s.refs[1].alias = "")
             @@ RsModels :> (CHOOSE s \in RsTypes : Len(s.symbols) = 3)
             @@ Main :> Src(<<Function(Main, "start")>>,
                  <<RsUse(<<"corelib">>, "User", ""), RsUse(<<"corelib", "models">>, "User", "U"),
                    RsUse(<<"corelib", "gone">>, "X", ""), RsUse(<<"serde">>, "Value", ""),
                    RsUse(<<"std", "fs">>, "*", ""), RsUse(<<"util">>, "tidy", ""),
                    Use("calls", <<"User", "new">>), Use("calls", <<"tidy">>), Use("calls", <<"U", "old">>),
                    Use("calls", <<"drop">>), Use("instantiates", <<"U">>),
                    Use("uses_type", <<"Value">>), Use("uses_type", <<"String">>)>>)
             @@ Tests :> Src(<<Function(Tests, "smoke")>>,
                  <<RsUse(<<"core_lib">>, "helper", ""), Use("calls", <<"helper">>)>>),
   versions |-> Root_ :> RsLib @@ RsModels :> RsTypes @@ Util :> {RsUtil},
   manifests |-> <<>> :> Manifest("", {<<"app">>, <<"core">>}, {})
                 @@ <<"app">> :> Manifest("app", {}, {<<"corelib", "core_lib">>})
                 @@ <<"core">> :> Manifest("core_lib", {}, {})]

----------------------------------------------------------------------------
(* TypeScript: a barrel, a chain and a cycle of re-exports, a directory    *)
(* with an index beside a file of its name, and a path alias.              *)

Index == At(<<"src">>, "index", "ts")
UserTs == At(<<"src">>, "user", "ts")
UtilTs == At(<<"src">>, "util", "ts")
UtilIndex == At(<<"src", "util">>, "index", "ts")
App == At(<<"src">>, "app", "ts")

Near(stem) == [relative |-> TRUE, up |-> 0, path |-> <<>>, name |-> stem, stem |-> stem, ext |-> ""]
Aliased(prefix, stem) ==
  [relative |-> FALSE, up |-> 0, path |-> <<prefix>>, name |-> stem, stem |-> stem, ext |-> ""]
TsUse(kind, module, symbol, alias) ==
  [kind |-> kind, module |-> module, symbol |-> symbol, alias |-> alias]
Ts(symbols, refs, default) == [symbols |-> symbols, refs |-> refs, default |-> default]

TsUser == Ts(<<Class(UserTs, "User"), Id(UserTs, <<"id">>, "property")>>, <<>>, <<Class(UserTs, "User")>>)
TsApp ==
  Ts(<<Function(App, "start")>>,
     <<TsUse("imports", Near("index"), "User", ""), TsUse("imports", Near("user"), "default", "Person"),
       TsUse("imports", Near("util"), "tidy", ""), TsUse("imports", Aliased("@app", "util"), "tidy", "clean"),
       TsUse("imports", Aliased("react", "jsx-runtime"), "jsx", ""), TsUse("imports", Near("gone"), "X", ""),
       TsUse("imports", Near("user"), "*", "all"),
       Use("uses_type", <<"User">>), Use("instantiates", <<"Person">>), Use("calls", <<"tidy">>),
       Use("calls", <<"clean">>), Use("calls", <<"fetch">>), Use("uses_type", <<"Promise">>)>>,
     <<>>)

TypeScriptProject ==
  [start |-> Index :> Ts(<<>>, <<TsUse("re_exports", Near("user"), "User", "")>>, <<>>)
             @@ UserTs :> TsUser @@ App :> TsApp
             @@ UtilIndex :> Ts(<<Function(UtilIndex, "tidy")>>, <<>>, <<>>),
   versions |->
     Index :> {Ts(<<>>, <<TsUse("re_exports", Near("user"), "User", "")>>, <<>>),
               Ts(<<>>, <<TsUse("re_exports", Near("user"), "*", "")>>, <<>>),
               Ts(<<>>, <<TsUse("re_exports", Near("barrel"), "User", "")>>, <<>>)}
     @@ UserTs :> {TsUser, Ts(<<>>, <<TsUse("re_exports", Near("index"), "User", "")>>, <<>>)}
     @@ UtilTs :> {Ts(<<Function(UtilTs, "tidy")>>, <<>>, <<>>)}
     @@ At(<<"src">>, "barrel", "ts") :> {Ts(<<>>, <<TsUse("re_exports", Near("user"), "User", "")>>, <<>>)},
   manifests |->
     <<>> :> [extends |-> <<<<"config">>>>, base |-> <<>>,
              paths |-> <<[prefix |-> <<"@app">>, replacements |-> <<<<"lib">>, <<"src">>>>]>>]
     @@ <<"config">> :> [extends |-> <<>>, base |-> <<>>,
                         paths |-> <<[prefix |-> <<"@app">>, replacements |-> <<<<"old">>>>]>>]]

----------------------------------------------------------------------------
(* Java: a line of inheritance that may turn into a cycle, a type imported *)
(* by its name and one from packages imported on demand.                   *)

BaseJ == At(<<"acme">>, "Base", "java")
ServiceJ == At(<<"acme">>, "Service", "java")
HelperJ == At(<<"acme", "util">>, "Helper", "java")
OtherJ == At(<<"acme", "other">>, "Helper", "java")

JavaFile(package, symbols) ==
  [package |-> package, symbols |-> symbols, refs |-> <<>>, imports |-> <<>>,
   wildcards |-> {}, statics |-> <<>>, spans |-> symbols[1] :> <<1, 9>>]
Extends(type, n) == [kind |-> "extends", from |-> type, name |-> n]
Type(n) == [kind |-> "uses_type", name |-> n]
Owned(owner, n) == [kind |-> "calls", owner |-> owner, name |-> n]
JavaImport(path) == [kind |-> "imports", path |-> path]

HelperAt(f, package) == JavaFile(package, <<Class(f, "Helper"), Method(f, "Helper", "help")>>)
BaseJava(refs) ==
  [JavaFile(<<"acme">>, <<Class(BaseJ, "Base"), Method(BaseJ, "Base", "run")>>) EXCEPT !.refs = refs]
ServiceJava(imports) ==
  [JavaFile(<<"acme">>, <<Class(ServiceJ, "Service"), Class(ServiceJ, "Node"),
                          Method(ServiceJ, "Service", "serve")>>) EXCEPT
     !.refs = <<Extends(Class(ServiceJ, "Service"), "Base"), Owned("Service", "run"),
                Owned("Helper", "help"), Owned("Service", "gone"), Owned("Service", "assist"),
                Type("String"), Type("Helper"), Type("Node"), Type("Lost"),
                JavaImport(<<"java", "util", "List">>), JavaImport(<<"acme", "util", "Helper">>)>>,
     !.imports = imports,
     !.wildcards = {<<"acme", "util">>, <<"acme", "other">>},
     !.statics = <<<<"assist", <<"org", "Extra">>>>, <<"help", <<"acme", "util", "Helper">>>>>>,
     !.spans = @ @@ Class(ServiceJ, "Node") :> <<2, 3>>]

JavaProject ==
  [start |-> BaseJ :> BaseJava(<<>>)
             @@ ServiceJ :> ServiceJava(<<<<"Helper", <<"acme", "util", "Helper">>>>>>)
             @@ HelperJ :> HelperAt(HelperJ, <<"acme", "util">>),
   versions |->
     BaseJ :> {BaseJava(<<>>), BaseJava(<<Extends(Class(BaseJ, "Base"), "Service")>>)}
     @@ ServiceJ :> {ServiceJava(<<>>), ServiceJava(<<<<"Helper", <<"acme", "util", "Helper">>>>>>),
                     ServiceJava(<<<<"Helper", <<"acme", "lost", "Helper">>>>>>)}
     @@ OtherJ :> {HelperAt(OtherJ, <<"acme", "other">>)},
   manifests |-> None]

----------------------------------------------------------------------------
(* C#: a partial class, nested namespaces that both have a type of one     *)
(* name, an alias and a static using.                                      *)

BaseC == At(<<>>, "Base", "cs")
PartC == At(<<>>, "Part", "cs")
ServiceC == At(<<>>, "Service", "cs")
OtherC == At(<<>>, "Zother", "cs")

CsFile(namespace, type, symbols) ==
  [symbols |-> symbols, refs |-> <<>>, declared |-> <<<<type, namespace>>>>,
   usings |-> {}, aliases |-> <<>>, statics |-> <<>>]
Implements(type, n) == [kind |-> "implements", from |-> type, name |-> n]

BaseCs(refs) ==
  [CsFile(<<"Acme">>, "Base", <<Class(BaseC, "Base"), Method(BaseC, "Base", "Run")>>)
     EXCEPT !.refs = refs]
PartCs == CsFile(<<"Acme">>, "Base", <<Class(PartC, "Base"), Method(PartC, "Base", "Extra")>>)
OtherCs(namespace) ==
  CsFile(namespace, "Tool", <<Class(OtherC, "Tool"), Method(OtherC, "Tool", "Use")>>)
ServiceCs(usings) ==
  [CsFile(<<"Acme", "Web">>, "Service", <<Class(ServiceC, "Service"), Class(ServiceC, "Local")>>)
     EXCEPT !.refs = <<Implements(Class(ServiceC, "Service"), "Base"), Owned("Service", "Run"),
                       Owned("Service", "Extra"), Owned("Tool", "Use"), Owned("Local", "Run"),
                       Type("Tool"), Type("B"), Type("Gone"),
                       JavaImport(<<"Acme", "Tools">>), JavaImport(<<"System">>)>>,
            !.declared = @ \o <<<<"Local", <<"Acme", "Web">>>>>>,
            !.usings = usings,
            !.aliases = <<<<"B", <<"Acme", "Base">>>>>>,
            !.statics = <<<<"Acme", "Base">>>>]

CSharpProject ==
  [start |-> BaseC :> BaseCs(<<>>)
             @@ ServiceC :> ServiceCs({<<"Acme", "Tools">>})
             @@ OtherC :> OtherCs(<<"Acme", "Tools">>),
   versions |->
     BaseC :> {BaseCs(<<>>), BaseCs(<<Implements(Class(BaseC, "Base"), "Service")>>)}
     @@ PartC :> {PartCs}
     @@ ServiceC :> {ServiceCs({<<"Acme", "Tools">>}), ServiceCs({})}
     @@ OtherC :> {OtherCs(<<"Acme", "Tools">>), OtherCs(<<"Acme">>), OtherCs(<<"Acme", "Web">>)}
     @@ At(<<>>, "Tool", "cs") :>
          {CsFile(<<"Acme">>, "Tool", <<Class(At(<<>>, "Tool", "cs"), "Tool")>>)},
   manifests |-> None]

----------------------------------------------------------------------------
(* Go: a package of several files, one of which comes first when added.    *)

MainGo == At(<<>>, "main", "go")
StoreGo == At(<<"store">>, "store", "go")
ExtraGo == At(<<"store">>, "extra", "go")

GoImport(path, alias) == [kind |-> "imports", path |-> path, alias |-> alias]
StorePath == <<"example.com", "app", "store">>

GoProject ==
  [start |-> MainGo :> Src(<<Function(MainGo, "main")>>,
               <<GoImport(StorePath, ""), GoImport(StorePath, "db"), GoImport(<<"fmt">>, ""),
                 Use("calls", <<"store", "Open">>), Use("calls", <<"db", "Close">>),
                 Use("calls", <<"fmt", "Println">>), Use("calls", <<"len">>), Use("calls", <<"lost">>),
                 Use("uses_type", <<"store", "User">>), Use("uses_type", <<"string">>),
                 Use("uses_type", <<"http", "Request">>), Use("calls", <<"setup">>),
                 Use("instantiates", <<"store", "User">>)>>)
             @@ StoreGo :> Src(<<Function(StoreGo, "Open"), Class(StoreGo, "User")>>,
                  <<Use("calls", <<"Close">>)>>),
   versions |->
     StoreGo :> {Src(<<Function(StoreGo, "Open"), Class(StoreGo, "User")>>, <<Use("calls", <<"Close">>)>>),
                 Src(<<Class(StoreGo, "User"), Function(StoreGo, "Close")>>, <<>>)}
     @@ ExtraGo :> {Src(<<Function(ExtraGo, "Close")>>, <<Use("uses_type", <<"User">>)>>),
                    Src(<<Function(ExtraGo, "Open")>>, <<>>)}
     @@ At(<<>>, "setup", "go") :>
          {Src(<<Function(At(<<>>, "setup", "go"), "setup")>>, <<GoImport(StorePath, "")>>)},
   manifests |-> <<>> :> <<"example.com", "app">>]

----------------------------------------------------------------------------
(* C: a header with a prototype and a file that may define it, headers     *)
(* that include each other, and a header of the same name elsewhere.       *)

MainC == At(<<"src">>, "main", "c")
UtilC == At(<<"src">>, "util", "c")
UtilH == At(<<"src">>, "util", "h")
LibH == At(<<"lib">>, "util", "h")
BaseH == At(<<"lib">>, "base", "h")
LibC == At(<<"lib">>, "zlib", "c")

Include(quoted, up, path, base) ==
  [kind |-> "imports", quoted |-> quoted, up |-> up, path |-> path, base |-> base]
CFile(symbols, refs) ==
  [symbols |-> symbols, refs |-> refs, prototypes |-> {}, statics |-> {}]
IncludeUtil == Include(TRUE, 0, <<>>, <<"util", "h">>)

UtilHeader(refs) == [CFile(<<Class(UtilH, "Point")>>, refs) EXCEPT !.prototypes = {"helper"}]
CProject ==
  [start |-> MainC :> CFile(<<Function(MainC, "main")>>,
               <<IncludeUtil, Include(FALSE, 0, <<>>, <<"stdio", "h">>),
                 Include(FALSE, 0, <<>>, <<"util", "h">>),
                 [kind |-> "typedef", name |-> <<"Point">>, alias |-> "P"],
                 Use("calls", <<"helper">>), Use("calls", <<"printf">>), Use("calls", <<"lost">>),
                 Use("uses_type", <<"P">>), Use("uses_type", <<"Point">>), Use("uses_type", <<"int">>)>>)
             @@ UtilH :> UtilHeader(<<>>)
             @@ UtilC :> CFile(<<Function(UtilC, "helper")>>, <<IncludeUtil>>),
   versions |->
     UtilH :> {UtilHeader(<<>>), UtilHeader(<<Include(TRUE, 1, <<"lib">>, <<"base", "h">>)>>)}
     @@ UtilC :> {CFile(<<Function(UtilC, "helper")>>, <<IncludeUtil>>), CFile(<<>>, <<IncludeUtil>>)}
     @@ LibH :> {CFile(<<Class(LibH, "Point")>>, <<>>)}
     @@ BaseH :> {CFile(<<Class(BaseH, "Point")>>, <<>>),
                  CFile(<<>>, <<Include(TRUE, 1, <<"src">>, <<"util", "h">>)>>)}
     @@ LibC :> {CFile(<<Function(LibC, "assist")>>, <<IncludeUtil>>),
                 [CFile(<<Function(LibC, "helper")>>, <<>>) EXCEPT !.statics = {"helper"}]},
   manifests |-> None]

----------------------------------------------------------------------------
MCFileOrder ==
  <<Init_, Api, Models, Stub, Service, Script,
    Main, Util, Tests, Root_, RsModels,
    App, At(<<"src">>, "barrel", "ts"), Index, UserTs, UtilTs, UtilIndex,
    BaseJ, ServiceJ, OtherJ, HelperJ,
    BaseC, PartC, ServiceC, At(<<>>, "Tool", "cs"), OtherC,
    MainGo, At(<<>>, "setup", "go"), ExtraGo, StoreGo,
    BaseH, LibH, LibC, MainC, UtilC, UtilH>>

MCProjects ==
  [python |-> PythonProject, rust |-> RustProject, typescript |-> TypeScriptProject,
   java |-> JavaProject, csharp |-> CSharpProject, go |-> GoProject, c |-> CProject]

MCLanguageOf ==
  [py |-> "python", pyi |-> "python", rs |-> "rust", ts |-> "typescript", java |-> "java",
   cs |-> "csharp", go |-> "go", c |-> "c", h |-> "c", lua |-> "structural"]
MCBuiltinTypes ==
  [python |-> {"str"}, rust |-> {"String"}, typescript |-> {"Promise"}, go |-> {"string"}, c |-> {"int"}]
MCBuiltinCallables ==
  [python |-> {"print"}, rust |-> {"drop"}, typescript |-> {"fetch"}, go |-> {"len"}, c |-> {"printf"}]
MCExtensions == <<"ts", "js">>

\* The trees an author may leave, of which the resolvers know enough.
Trees(p) ==
  LET v == Projects[p].versions
      Kept == DOMAIN Projects[p].start
      With(set) == {t \in [set -> UNION {Versions(p, f) : f \in set}] : \A f \in set : t[f] \in Versions(p, f)}
  IN  UNION {With(Kept \cup added) : added \in SUBSET (DOMAIN v \ Kept)}
ASSUME OrdinaryRepositories ==
  \A p \in {"python", "java", "csharp", "go", "c"} : \A t \in Trees(p) : Ordinary(p, t)
=============================================================================
