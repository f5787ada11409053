------------------------------ MODULE Snapshot ------------------------------
(***************************************************************************)
(* The bytes of a stored graph.  Builds of several versions have written   *)
(* them; this build writes the last of those versions and reads every one. *)
(* A string is the sequence of its bytes.  A section of a snapshot is a    *)
(* sequence of rows, a row a tuple of fields laid out as the section says; *)
(* in memory a graph holds every section but the edges as a set, since     *)
(* its maps are iterated in any order.                                     *)
(***************************************************************************)
EXTENDS Integers, SequencesExt

CONSTANTS Graphs,   \* what may be saved
          Versions  \* of the builds that may have saved it

SnapshotVersion == 6

VARIABLES
  disk,    \* the bytes stored
  origin,  \* [version, graph, cut]: who wrote them, and whether some are lost
  memory,  \* <<the graph last loaded>>, <<>> when that failed or was not tried
  failed   \* whether the last load failed
vars == <<disk, origin, memory, failed>>

----------------------------------------------------------------------------
(* Layouts: the fields of the rows of each section.                        *)

U32 == [type |-> "u32", of |-> <<>>, codes |-> 0]
Text == [type |-> "text", of |-> <<>>, codes |-> 0]
Option == [type |-> "option", of |-> <<>>, codes |-> 0]
Bool == [type |-> "bool", of |-> <<>>, codes |-> 0]
Resolution == [type |-> "resolution", of |-> <<>>, codes |-> 0]
Code(n) == [type |-> "code", of |-> <<>>, codes |-> n]
List(layout) == [type |-> "list", of |-> layout, codes |-> 0]

Kinds == 11
Languages == 15
EdgeKinds == 9
Scopes == 4

SymbolRow == <<Text, Text, Code(Kinds), Code(Languages), Text, U32, U32, Option>>
EdgeRow == <<Text, Text, Code(EdgeKinds), Option, List(<<Text>>), Text, Text, U32>>
AliasRow == <<Text, List(<<Text, Text, Code(Scopes)>>)>>
ReexportRow == <<Text, List(<<Text, Text>>)>>
Counts == <<Text, U32>>

\* What this build writes.
Written == <<SymbolRow, Append(EdgeRow, Resolution), AliasRow, ReexportRow,
             Counts, <<Text, Bool>>, Counts, Counts>>

\* Fault: the edges of every version carry a resolution.
ReadOneEdgeRow(version) ==
  <<SymbolRow, Append(EdgeRow, Resolution), AliasRow>>
  \o (IF version >= 2 THEN <<ReexportRow>> ELSE <<>>)
  \o (IF version >= 4 THEN <<Counts, <<Text, Bool>>>> ELSE <<>>)
  \o (IF version >= 5 THEN <<Counts>> ELSE <<>>)
  \o (IF version >= 6 THEN <<Counts>> ELSE <<>>)

\* What it reads of each version.
ReadOf(version) ==
  <<SymbolRow, IF version >= 3 THEN Append(EdgeRow, Resolution) ELSE EdgeRow, AliasRow>>
  \o (IF version >= 2 THEN <<ReexportRow>> ELSE <<>>)
  \o (IF version >= 4 THEN <<Counts, <<Text, Bool>>>> ELSE <<>>)
  \o (IF version >= 5 THEN <<Counts>> ELSE <<>>)
  \o (IF version >= 6 THEN <<Counts>> ELSE <<>>)

----------------------------------------------------------------------------
(* Writing.                                                                *)

WriteU32(n) ==
  LET n2 == n \div 256
      n3 == n2 \div 256
      n4 == n3 \div 256
  IN  <<n % 256, n2 % 256, n3 % 256, n4 % 256>>
WriteText(s) == WriteU32(Len(s)) \o s

WritePlain(field, x) ==
  CASE field.type \in {"code", "resolution"} -> <<x>>
    [] field.type = "bool" -> <<IF x THEN 1 ELSE 0>>
    [] field.type = "u32" -> WriteU32(x)
    [] field.type = "text" -> WriteText(x)
    [] field.type = "option" -> IF x = <<>> THEN <<0>> ELSE <<1>> \o WriteText(x[1])

\* Rows of written fields, and their number before them.
WriteCounted(rows) ==
  WriteU32(Len(rows)) \o FlattenSeq([i \in DOMAIN rows |-> FlattenSeq(rows[i])])

WriteField(field, x) ==
  IF field.type = "list"
  THEN WriteCounted([i \in DOMAIN x |->
         [j \in DOMAIN field.of |-> WritePlain(field.of[j], x[i][j])]])
  ELSE WritePlain(field, x)

WriteRows(layout, rows) ==
  WriteCounted([i \in DOMAIN rows |->
    [j \in DOMAIN layout |-> WriteField(layout[j], rows[i][j])]])

ToBytes(version, layouts, sections) ==
  <<version>> \o FlattenSeq([i \in DOMAIN layouts |-> WriteRows(layouts[i], sections[i])])

----------------------------------------------------------------------------
(* Reading: a value and where it ends, unless the bytes do not hold it.    *)

Got(value, end) == [ok |-> TRUE, value |-> value, end |-> end]
Failed == [ok |-> FALSE]

ReadU8(bytes, at) == IF at > Len(bytes) THEN Failed ELSE Got(bytes[at], at + 1)

ReadU32(bytes, at) ==
  IF at + 3 > Len(bytes) THEN Failed
  ELSE Got(bytes[at] + 256 * (bytes[at + 1] + 256 * (bytes[at + 2] + 256 * bytes[at + 3])),
           at + 4)

\* Fault: what there is of a string will do.
ReadTextShort(bytes, at) ==
  LET length == ReadU32(bytes, at)
      end    == length.end + length.value
      last   == IF end > Len(bytes) + 1 THEN Len(bytes) + 1 ELSE end
  IN  IF ~ length.ok THEN Failed
      ELSE Got(SubSeq(bytes, length.end, last - 1), last)

\* A byte above 127 begins no string of this model.
ReadText(bytes, at) ==
  LET length == ReadU32(bytes, at)
      end    == length.end + length.value
  IN  IF ~ length.ok \/ length.value > Len(bytes) - length.end + 1 THEN Failed
      ELSE IF \E i \in length.end .. end - 1 : bytes[i] > 127 THEN Failed
      ELSE Got(SubSeq(bytes, length.end, end - 1), end)

\* An unknown resolution is the weakest; any other unknown code is an error.
ReadPlain(field, bytes, at) ==
  LET byte  == ReadU8(bytes, at)
      text  == ReadText(bytes, at + 1)
  IN  CASE field.type = "u32" -> ReadU32(bytes, at)
        [] field.type = "text" -> ReadText(bytes, at)
        [] field.type \in {"code", "bool", "resolution", "option"} ->
             CASE ~ byte.ok -> Failed
               [] byte.ok /\ field.type = "code" ->
                    IF byte.value \in 1 .. field.codes THEN byte ELSE Failed
               [] byte.ok /\ field.type = "bool" -> Got(byte.value # 0, at + 1)
               [] byte.ok /\ field.type = "resolution" ->
                    Got(IF byte.value = 1 THEN 1 ELSE 0, at + 1)
               [] byte.ok /\ field.type = "option" ->
                    IF byte.value = 0 THEN Got(<<>>, at + 1)
                    ELSE IF text.ok THEN Got(<<text.value>>, text.end)
                    ELSE Failed

\* n items, each from where the one before it ends; read[i][p] is the i-th
\* when it is read from p on.
InTurn(n, read, at) ==
  LET after[i \in 0 .. n] ==
        IF i = 0 THEN Got(<<>>, at)
        ELSE LET done == after[i - 1]
                 item == read[i][done.end]
             IN  IF done.ok /\ item.ok THEN Got(Append(done.value, item.value), item.end)
                 ELSE Failed
  IN  after[n]

\* Rows of that many fields, after their number.
ReadCounted(fields, read, bytes, at) ==
  LET count == ReadU32(bytes, at)
  IN  IF ~ count.ok THEN Failed
      ELSE InTurn(count.value, [i \in 1 .. count.value |-> [p \in Nat |-> InTurn(fields, read, p)]],
                  count.end)

ReadField(field, bytes, at) ==
  IF field.type = "list"
  THEN ReadCounted(Len(field.of),
                   [j \in DOMAIN field.of |-> [p \in Nat |-> ReadPlain(field.of[j], bytes, p)]],
                   bytes, at)
  ELSE ReadPlain(field, bytes, at)

ReadRows(layout, bytes, at) ==
  ReadCounted(Len(layout),
              [j \in DOMAIN layout |-> [p \in Nat |-> ReadField(layout[j], bytes, p)]],
              bytes, at)

\* The sections, unless the bytes are no snapshot this build knows.
FromBytes(bytes) ==
  LET version == ReadU8(bytes, 1)
      layouts == ReadOf(version.value)
      read    == InTurn(Len(layouts),
                        [i \in DOMAIN layouts |-> [p \in Nat |-> ReadRows(layouts[i], bytes, p)]], 2)
  IN  IF /\ version.ok /\ version.value \in 1 .. SnapshotVersion
         /\ read.ok /\ read.end = Len(bytes) + 1
      THEN read ELSE Failed

----------------------------------------------------------------------------
(* Graphs: [symbols, aliases, reexports, assertions, counted, unbound,     *)
(* outside], a set of rows each, and edges, a sequence of them.            *)

\* Strings, byte by byte.
Before(s, t) ==
  \E i \in DOMAIN t :
    /\ \A j \in 1 .. i - 1 : j \in DOMAIN s /\ s[j] = t[j]
    /\ i \in DOMAIN s => s[i] < t[i]

\* By the first of several strings that differs; a number is one of one byte.
KeyBefore(k, l) ==
  \E c \in DOMAIN k : Before(k[c], l[c]) /\ \A d \in 1 .. c - 1 : k[d] = l[d]

\* The rows at the places of a rank, the lowest first.
Ranked(rows, rank) ==
  [k \in 1 .. Cardinality(DOMAIN rank) |->
     rows[CHOOSE i \in DOMAIN rank : rank[i] = k - 1]]

\* sort_by: rows with the same key stay in the order they have.
StableSort(rows, key) ==
  Ranked(rows, [i \in DOMAIN rows |->
    Cardinality({j \in DOMAIN rows : \/ KeyBefore(key[j], key[i])
                                     \/ (key[j] = key[i] /\ j < i)})])

Selected(rows, which) ==
  Ranked(rows, [i \in which |-> Cardinality({j \in which : j < i})])

\* By file, line and ends.
SortEdges(edges) ==
  StableSort(edges, [i \in DOMAIN edges |->
    <<edges[i][7], <<edges[i][8]>>, edges[i][1], edges[i][2]>>])

\* The entries of a chain, or of a file's re-exports: by one of their two
\* strings, then by the other.
SortEntries(entries, by) ==
  StableSort(entries, [i \in DOMAIN entries |-> <<entries[i][by], entries[i][3 - by]>>])

Inner(rows, by) == [i \in DOMAIN rows |-> <<rows[i][1], SortEntries(rows[i][2], by)>>]

Orders == {"one", "another"}
Iterated(rows, order) == IF order = "one" THEN SetToSeq(rows) ELSE Reverse(SetToSeq(rows))

\* Fault: the maps are written in the order they are iterated in.
FromGraphUnsorted(g, order) ==
  <<Iterated(g.symbols, order), SortEdges(g.edges), Iterated(g.aliases, order),
    Iterated(g.reexports, order), Iterated(g.assertions, order), Iterated(g.counted, order),
    Iterated(g.unbound, order), Iterated(g.outside, order)>>

ByKey(rows, order) ==
  LET found == Iterated(rows, order)
  IN  StableSort(found, [i \in DOMAIN found |-> <<found[i][1]>>])

FromGraph(g, order) ==
  <<ByKey(g.symbols, order), SortEdges(g.edges),
    Inner(ByKey(g.aliases, order), 2), Inner(ByKey(g.reexports, order), 1),
    ByKey(g.assertions, order), ByKey(g.counted, order),
    ByKey(g.unbound, order), ByKey(g.outside, order)>>

Section(sections, i) == IF i \in DOMAIN sections THEN ToSet(sections[i]) ELSE {}

\* Fault: an edge without a resolution is taken for a resolved one.
IntoGraphTrusting(sections) ==
  [symbols |-> Section(sections, 1),
   edges |-> [i \in DOMAIN sections[2] |->
                IF Len(sections[2][i]) = 8 THEN Append(sections[2][i], 1) ELSE sections[2][i]],
   aliases |-> Section(sections, 3), reexports |-> Section(sections, 4),
   assertions |-> Section(sections, 5), counted |-> Section(sections, 6),
   unbound |-> Section(sections, 7), outside |-> Section(sections, 8)]

\* An edge without a resolution is a structural one, and one with an end that
\* is no symbol is not taken over.
IntoGraph(sections) ==
  LET ids   == {s[1] : s \in Section(sections, 1)}
      edges == sections[2]
      whole == Selected(edges, {i \in DOMAIN edges : {edges[i][1], edges[i][2]} \subseteq ids})
  IN  [symbols |-> Section(sections, 1),
       edges |-> [i \in DOMAIN whole |-> IF Len(whole[i]) = 8 THEN Append(whole[i], 0) ELSE whole[i]],
       aliases |-> Section(sections, 3), reexports |-> Section(sections, 4),
       assertions |-> Section(sections, 5), counted |-> Section(sections, 6),
       unbound |-> Section(sections, 7), outside |-> Section(sections, 8)]

----------------------------------------------------------------------------
Bytes(g, order) == ToBytes(SnapshotVersion, Written, FromGraph(g, order))

\* What a build of another version wrote: the sections it knew, and edges
\* without a resolution before version 3.
Sections == <<3, 4, 4, 6, 7, 8>>
WrittenBy(version) ==
  [i \in 1 .. (IF version > SnapshotVersion THEN 8 ELSE Sections[version]) |->
     IF i = 2 /\ version < 3 THEN EdgeRow ELSE Written[i]]
PastBytes(version, g) == ToBytes(version, WrittenBy(version), FromGraph(g, "one"))

\* What the types of the program let a row hold.
IsWord(n) == n \in Nat /\ ((n \div 256) \div 256) \div 256 < 256
IsText(s) == s \in Seq(0 .. 127) /\ IsWord(Len(s))
IsSequence(x) == IsWord(Len(x)) /\ x = [i \in 1 .. Len(x) |-> x[i]]

FitsPlain(field, x) ==
  CASE field.type = "text" -> IsText(x)
    [] field.type = "u32" -> IsWord(x)
    [] field.type = "option" -> x = <<>> \/ (x = <<x[1]>> /\ IsText(x[1]))
    [] field.type = "bool" -> x \in BOOLEAN
    [] field.type = "code" -> x \in 1 .. field.codes
    [] field.type = "resolution" -> x \in 0 .. 255
    [] OTHER -> FALSE

Fits(field, x) ==
  IF field.type = "list"
  THEN /\ IsSequence(x)
       /\ \A i \in DOMAIN x :
            /\ x[i] = [j \in DOMAIN field.of |-> x[i][j]]
            /\ \A j \in DOMAIN field.of : FitsPlain(field.of[j], x[i][j])
  ELSE FitsPlain(field, x)

FitsRow(layout, row) ==
  /\ row = [j \in DOMAIN layout |-> row[j]]
  /\ \A j \in DOMAIN layout : Fits(layout[j], row[j])

\* A map: one row for each key, and no more of them than can be counted.
FitsMap(layout, rows) ==
  /\ IsFiniteSet(rows) /\ IsWord(Cardinality(rows))
  /\ \A r \in rows : FitsRow(layout, r)
  /\ \A r, q \in rows : r[1] = q[1] => r = q

\* Edges join symbols of the graph.
IsGraph(g) ==
  /\ FitsMap(SymbolRow, g.symbols)
  /\ IsSequence(g.edges)
  /\ \A i \in DOMAIN g.edges :
       /\ FitsRow(Append(EdgeRow, Resolution), g.edges[i])
       /\ {g.edges[i][1], g.edges[i][2]} \subseteq {s[1] : s \in g.symbols}
  /\ FitsMap(AliasRow, g.aliases) /\ FitsMap(ReexportRow, g.reexports)
  /\ FitsMap(Counts, g.assertions) /\ FitsMap(<<Text, Bool>>, g.counted)
  /\ FitsMap(Counts, g.unbound) /\ FitsMap(Counts, g.outside)

ASSUME SnapshotAssumption ==
  /\ Versions \subseteq 1 .. 255
  /\ \A g \in Graphs : IsGraph(g)

NothingSaved == [version |-> 0, graph |-> <<>>, by |-> 0, cut |-> FALSE]

Init == disk = <<>> /\ origin = NothingSaved /\ memory = <<>> /\ failed = FALSE

\* A build saves what it analysed; before, nothing was stored.
Save(version, g, order) ==
  /\ origin = NothingSaved
  /\ disk' = IF version = SnapshotVersion THEN Bytes(g, order) ELSE PastBytes(version, g)
  /\ origin' = [version |-> version, graph |-> <<g>>, by |-> version, cut |-> FALSE]
  /\ UNCHANGED <<memory, failed>>

\* The end of what was stored is lost.
Cut(n) ==
  /\ ~ origin.cut /\ memory = <<>> /\ ~ failed
  /\ n < Len(disk)
  /\ disk' = SubSeq(disk, 1, n)
  /\ origin' = [origin EXCEPT !.cut = TRUE]
  /\ UNCHANGED <<memory, failed>>

\* Fault: what cannot be read is an empty graph.
LoadDefaulting ==
  /\ origin # NothingSaved /\ memory = <<>> /\ ~ failed
  /\ LET read == FromBytes(disk)
     IN  /\ failed' = ~ read.ok
         /\ memory' = <<IntoGraph(IF read.ok THEN read.value ELSE <<<<>>, <<>>>>)>>
  /\ UNCHANGED <<disk, origin>>

Load ==
  /\ origin # NothingSaved /\ memory = <<>> /\ ~ failed
  /\ LET read == FromBytes(disk)
     IN  IF read.ok THEN memory' = <<IntoGraph(read.value)>> /\ UNCHANGED failed
         ELSE failed' = TRUE /\ UNCHANGED memory
  /\ UNCHANGED <<disk, origin>>

\* This build stores the graph it loaded, unchanged, and ends.
Resave(order) ==
  /\ memory # <<>>
  /\ disk' = Bytes(memory[1], order)
  /\ origin' = [origin EXCEPT !.by = SnapshotVersion]
  /\ memory' = <<>>
  /\ UNCHANGED failed

Next ==
  \/ \E version \in Versions, g \in Graphs, order \in Orders : Save(version, g, order)
  \/ \E n \in 0..Len(disk) : Cut(n)
  \/ Load
  \/ \E order \in Orders : Resave(order)

Spec == Init /\ [][Next]_vars

----------------------------------------------------------------------------
(* Properties.                                                             *)

\* What a graph says once a build of that version has saved it: what the
\* version did not store is unknown, and an edge is resolved only when it was
\* stored as such.
Known(version, g) ==
  LET Weak(e) == [e EXCEPT ![9] = IF version >= 3 /\ @ = 1 THEN 1 ELSE 0]
      Since(v, rows) == IF version >= v THEN rows ELSE {}
      sorted == SortEdges(g.edges)
  IN  [symbols |-> g.symbols, edges |-> [i \in DOMAIN sorted |-> Weak(sorted[i])],
       aliases |-> {<<a[1], ToSet(a[2])>> : a \in g.aliases},
       reexports |-> {<<r[1], ToSet(r[2])>> : r \in Since(2, g.reexports)},
       assertions |-> Since(4, g.assertions), counted |-> Since(4, g.counted),
       unbound |-> Since(5, g.unbound), outside |-> Since(6, g.outside)]

Unordered(g) ==
  [g EXCEPT !.aliases = {<<a[1], ToSet(a[2])>> : a \in @},
            !.reexports = {<<r[1], ToSet(r[2])>> : r \in @}]

\* A snapshot of any version, through any number of loads and saves by this
\* build, says what its first writer knew: nothing is lost, no edge becomes
\* trusted, and no count that was never taken becomes zero.
KnowledgeKept ==
  memory # <<>> => Unordered(memory[1]) = Known(origin.version, origin.graph[1])

\* A snapshot that lacks its end, or that a later version wrote, is refused,
\* and no graph is made of a part of one; every whole snapshot of a version
\* this build knows is read.
WholeReadPartRefused ==
  /\ memory # <<>> => ~ origin.cut /\ origin.version <= SnapshotVersion
  /\ failed => memory = <<>> /\ (origin.cut \/ origin.by > SnapshotVersion)

\* The bytes this build writes depend on the graph alone: not on the order its
\* maps are iterated in, nor on whether it was loaded and saved again. (Another
\* build may store a resolution this one does not know, and reads as weak.)
OneGraphOneBytes ==
  LET g == origin.graph[1]
      ours == ~ origin.cut /\ origin.version = SnapshotVersion
  IN  ours /\ (\A i \in DOMAIN g.edges : g.edges[i][9] \in {0, 1}) =>
        \A order \in Orders : disk = Bytes(g, order)
=============================================================================
