------------------------------- MODULE Rules -------------------------------
(***************************************************************************)
(* The rules file: rules.rs of openinvar-core.  A file is a sequence of    *)
(* rules as written; parse yields the rules in force, or Malformed when    *)
(* any of them cannot mean anything, and then nothing is evaluated.        *)
(*                                                                         *)
(* A glob stands for the set of paths (or names) it matches, and Malformed *)
(* for every value no check lets through: a blank or invalid glob, a       *)
(* threshold below one, an unknown level or kind of symbol.                *)
(***************************************************************************)
EXTENDS Naturals, Sequences

CONSTANTS Missing,       \* not written, or not on disk
          Malformed,
          Everything,    \* what the glob ** matches
          DefaultName    \* "rule #1", "rule #2", ...

FanKinds == {"max-fan-in", "max-fan-out"}

KnownKinds ==
  {"forbid-dependency", "forbid-reference", "no-field-removal", "layers",
   "independence", "naming-convention", "no-cycles", "requires-test",
   "requires-dependency", "no-orphans"} \cup FanKinds

RequiredFields(kind) ==
  CASE kind \in {"forbid-dependency", "forbid-reference",
                 "requires-dependency"} -> {"from", "to"}
    [] kind \in FanKinds             -> {"threshold"}
    [] kind = "no-field-removal"     -> {"symbol"}
    [] kind = "no-orphans"           -> {"scope"}
    [] kind = "requires-test"        -> {"symbols"}
    [] kind = "naming-convention"    -> {"symbols", "matches"}
    [] kind = "layers"               -> {"layers"}
    [] kind = "independence"         -> {"modules"}
    [] kind = "no-cycles"            -> {}

\* Optional fields with the value a rule has without them.
Defaults(kind) ==
  CASE kind = "no-orphans"        -> [roots |-> {}]
    [] kind = "requires-test"     -> [only |-> Missing, new_only |-> FALSE]
    [] kind = "naming-convention" -> [only |-> Missing]
    [] kind = "no-cycles"         -> [scope |-> Everything, level |-> "file"]
    [] OTHER                      -> <<>>

DefaultSeverity(kind) ==
  IF kind \in FanKinds \cup {"no-orphans"} THEN "warn" ELSE "error"

\* Two entries is the least that can be violated.
CheckGlobList(v) ==
  /\ Len(v) >= 2
  /\ \A i, j \in DOMAIN v : v[i] # Malformed /\ (v[i] = v[j] => i = j)

ValidField(f, v) ==
  IF f \in {"layers", "modules"} THEN CheckGlobList(v) ELSE v # Malformed

FieldsOf(kind) == RequiredFields(kind) \cup DOMAIN Defaults(kind)

\* Fields of another kind, and unknown ones, are not looked at.
Builds(raw) ==
  /\ raw.kind \in KnownKinds
  /\ RequiredFields(raw.kind) \subseteq DOMAIN raw.fields
  /\ \A f \in DOMAIN raw.fields \cap FieldsOf(raw.kind) :
       ValidField(f, raw.fields[f])

Build(raw, index) ==
  [name     |-> IF raw.name = Missing THEN DefaultName[index] ELSE raw.name,
   kind     |-> raw.kind,
   severity |-> IF raw.severity = Missing THEN DefaultSeverity(raw.kind)
                                          ELSE raw.severity,
   fields   |-> [f \in FieldsOf(raw.kind) |->
                   IF f \in DOMAIN raw.fields THEN raw.fields[f]
                                              ELSE Defaults(raw.kind)[f]]]

\* Fault: names are not compared.
ParseAnyNames(file) ==
  IF file.tables /\ \A i \in DOMAIN file.rules : Builds(file.rules[i])
  THEN [i \in DOMAIN file.rules |-> Build(file.rules[i], i)] ELSE Malformed

\* `tables` says whether every table of the file is one that is known.
Parse(file) ==
  LET rules == [i \in DOMAIN file.rules |-> Build(file.rules[i], i)]
  IN  IF /\ file.tables
         /\ \A i \in DOMAIN file.rules : Builds(file.rules[i])
         /\ \A i, j \in DOMAIN rules : rules[i].name = rules[j].name => i = j
      THEN rules ELSE Malformed

\* The file at the root of the repository hides the one at the old place.
Locate(config) == IF config.root # Missing THEN config.root ELSE config.legacy

NeedsDelta(rule) ==
  \/ rule.kind = "no-field-removal"
  \/ rule.kind = "requires-test" /\ rule.fields["new_only"]
=============================================================================
