------------------------------ MODULE DocStore ------------------------------
(***************************************************************************)
(* The documentation of the builtin types: encode_class_docs and           *)
(* encode_method_docs write docs/objects.txt and docs/methods.txt, two     *)
(* lists of sections, as two blobs when the program is built, and          *)
(* DocPopulator reads the blobs back when it starts and hands each text to *)
(* its type or method of the TypeRegistry.                                 *)
(*                                                                         *)
(* A blob is a sequence of cells, one for each value written; a text is a  *)
(* model value with a length, and the lengths are counted in words of the  *)
(* size of the program's uint32.                                           *)
(***************************************************************************)
EXTENDS Integers, Sequences, SequencesExt, FiniteSets

CONSTANTS
  Class,      \* the object types of the registry
  Super,      \* the super type of each, or None
  Methods,    \* the methods each registers
  None,       \* no name
  Length,     \* the bytes of every name and text there is
  Files,      \* what objects.txt and methods.txt can be, sequences of sections
  Word        \* 2^32 in the code: what an unsigned count wraps at

(* There are finitely many types, and the super types form no cycle. *)
ASSUME SuperAssumption ==
  /\ IsFiniteSet(Class) /\ None \notin Class
  /\ Super \in [Class -> Class \union {None}]
  /\ \E depth \in [Class -> 0 .. Cardinality(Class)] :
       \A c \in Class : Super[c] # None => depth[Super[c]] < depth[c]

(* What every section of docs/objects.txt and docs/methods.txt is like: a     *)
(* class has the super class it is registered with, and a method stands under *)
(* the type that registers it, or under no type.                              *)
Names == DOMAIN Length
ClassSection == {s \in [name : Class, owner : Class \union {None}, docs : Names] :
                   s.owner = Super[s.name]}
MethodSection == {s \in [name : Names, owner : Class \union {None}, docs : Names] :
                    s.owner # None => s.name \in Methods[s.owner]}

ASSUME FilesAssumption ==
  /\ Length \in [Names -> Nat] /\ Class \subseteq Names
  /\ Methods \in [Class -> SUBSET Names] /\ None \notin Names
  /\ Files["classes"] \subseteq Seq(ClassSection)
  /\ Files["methods"] \subseteq Seq(MethodSection)

(* s[p] + ... + s[Len(s)]. *)
SumFrom(s, p) ==
  LET Sum[i \in 1 .. Len(s) + 1] == IF i > Len(s) THEN 0 ELSE s[i] + Sum[i + 1]
  IN  Sum[p]

(* The bytes of a section: a flag, and a length before each of its strings. *)
SectionSize(s) ==
  1 + (4 + Length[s.name]) + (IF s.owner = None THEN 0 ELSE 4 + Length[s.owner])
    + (4 + Length[s.docs])
SectionSizes(sections) == [i \in DOMAIN sections |-> SectionSize(sections[i])]

(* Both files fit into a blob, which begins with four bytes of its own. *)
ASSUME WordAssumption ==
  /\ Word \in Nat
  /\ \A k \in {"classes", "methods"} : \A f \in Files[k] :
       4 + SumFrom(SectionSizes(f), 1) < Word

VARIABLES
  phase,    \* "encode", "decode", "assign" or "done"
  kind,     \* which file that is about: "classes", then "methods"
  source,   \* the sections of the two files
  data,     \* the blobs
  pos,      \* the section to encode or to assign, or the cell to decode, next
  left,     \* bytes_left
  records,  \* the sections decoded so far
  docs,     \* the docs of the types, and doc of the methods
  failed    \* an assertion has failed, or a value of another kind was read

vars == <<phase, kind, source, data, pos, left, records, docs, failed>>

-----------------------------------------------------------------------------
(***************************************************************************)
(* The encoders.                                                           *)
(***************************************************************************)
Cell(type, v) == [type |-> type, v |-> v]

SizeOf(cell) ==
  CASE cell.type = "byte" -> 1 [] cell.type = "uint16" -> 2
    [] cell.type = "uint32" -> 4 [] cell.type = "bytes" -> Length[cell.v]

(* The bytes from cell p on. *)
SizeFrom(cells, p) == SumFrom([i \in DOMAIN cells |-> SizeOf(cells[i])], p)

Size(s) == Cell("uint32", Length[s])
Bytes(s) == Cell("bytes", s)

(* An encoder counts the empty section before the first heading too, in 16 bits. *)
Header(sections) ==
  <<Cell("byte", "0x55"), Cell("byte", "0xAA"), Cell("uint16", (Len(sections) + 1) % 65536)>>

(* An encoder that writes the owner before the name, as its loop finds them. *)
RecordOwnerFirst(s) ==
  IF s.owner = None
  THEN <<Cell("byte", FALSE), Size(s.name), Bytes(s.name), Size(s.docs), Bytes(s.docs)>>
  ELSE <<Cell("byte", TRUE), Size(s.owner), Bytes(s.owner), Size(s.name), Bytes(s.name),
         Size(s.docs), Bytes(s.docs)>>

(* owner: the super class of a class, the object of a method. *)
Record(s) ==
  IF s.owner = None
  THEN <<Cell("byte", FALSE), Size(s.name), Bytes(s.name), Size(s.docs), Bytes(s.docs)>>
  ELSE <<Cell("byte", TRUE), Size(s.name), Bytes(s.name), Size(s.owner), Bytes(s.owner),
         Size(s.docs), Bytes(s.docs)>>

Encode ==
  /\ phase = "encode"
  /\ IF pos <= Len(source[kind])
     THEN /\ data' = [data EXCEPT ![kind] =
                        IF pos = 0 THEN Header(source[kind]) ELSE @ \o Record(source[kind][pos])]
          /\ pos' = pos + 1
          /\ UNCHANGED <<phase, kind>>
     ELSE /\ pos' = 0
          /\ IF kind = "classes" THEN kind' = "methods" /\ UNCHANGED phase
                                 ELSE kind' = "classes" /\ phase' = "decode"
          /\ UNCHANGED data
  /\ UNCHANGED <<source, left, records, docs, failed>>

-----------------------------------------------------------------------------
(***************************************************************************)
(* DocPopulator.                                                           *)
(***************************************************************************)
Minus(n, m) == (n - m) % Word

Open ==
  /\ phase = "decode" /\ pos = 0
  /\ pos' = 4
  /\ left' = Minus(Minus(SizeFrom(data[kind], 1), 2), 2)
  /\ records' = << >>
  /\ failed' = (failed \/ data[kind][1].v # "0x55" \/ data[kind][2].v # "0xAA")
  /\ UNCHANGED <<phase, kind, source, data, docs>>

(* A length and its bytes at position p, with n bytes left. *)
IsString(p) ==
  /\ p + 1 <= Len(data[kind])
  /\ data[kind][p].type = "uint32" /\ data[kind][p + 1].type = "bytes"

StringAt(p, n) ==
  LET len == data[kind][p].v
  IN  [v |-> data[kind][p + 1].v, len |-> len, before |-> Minus(n, 4),
       left |-> Minus(Minus(n, 4), len), next |-> p + 2]

(* A decoder that does not expect the blob to end with a text. *)
TextFitsBefore(len, n) == len < n

(* A name is followed by more, the text may be the last of the blob. *)
NameFits(len, n) == len < n
TextFits(len, n) == len <= n

(* A decoder that forgets to count the flag. *)
FlagUncounted(n) == n

FlagRead(n) == Minus(n, 1)

(* One turn of the loop: [record, next, left] or the failure to read one. *)
Decoded ==
  LET owned == data[kind][pos].v
      name == StringAt(pos + 1, FlagRead(left))
      owner == IF owned THEN StringAt(name.next, name.left) ELSE name
      body == StringAt(owner.next, owner.left)
  IN  IF /\ pos <= Len(data[kind]) /\ data[kind][pos].type = "byte"
         /\ IsString(pos + 1) /\ IsString(name.next)
         /\ owned => IsString(owner.next)
      THEN [record |-> [name |-> name.v, owner |-> IF owned THEN owner.v ELSE None,
                        docs |-> body.v],
            next |-> body.next, left |-> body.left,
            ok |-> /\ NameFits(name.len, name.before)
                   /\ owned => NameFits(owner.len, owner.before)
                   /\ TextFits(body.len, body.before)]
      ELSE [ok |-> FALSE]

Decode ==
  /\ phase = "decode" /\ pos > 0 /\ left # 0 /\ ~failed
  /\ failed' = ~Decoded.ok
  /\ IF Decoded.ok
     THEN /\ records' = Append(records, Decoded.record)
          /\ pos' = Decoded.next
          /\ left' = Decoded.left
     ELSE UNCHANGED <<records, pos, left>>
  /\ UNCHANGED <<phase, kind, source, data, docs>>

Close ==
  /\ phase = "decode" /\ pos > 0 /\ left = 0 /\ ~failed
  /\ phase' = "assign"
  /\ pos' = 1
  /\ UNCHANGED <<kind, source, data, left, records, docs, failed>>

-----------------------------------------------------------------------------
(* The ancestors of the heading, nearest first: only a class that has a    *)
(* super class itself is a key of hierarchy.                               *)
hierarchy == [c \in {records[i].name : i \in {j \in DOMAIN records : records[j].owner # None}} |->
                records[CHOOSE i \in DOMAIN records : records[i].name = c].owner]

Extends(parent) ==
  LET Up[p \in Class \union {None}] ==
        IF p \in DOMAIN hierarchy THEN <<p>> \o Up[hierarchy[p]] ELSE << >>
  IN  Up[parent]

(* A search that begins with the super type. *)
FindInSuper(c, name) ==
  LET Find[t \in Class \union {None}] ==
        IF t = None THEN None
        ELSE IF Super[t] # None /\ Find[Super[t]] # None THEN Find[Super[t]]
        ELSE IF name \in Methods[t] THEN t ELSE None
  IN  Find[c]

(* The class whose list holds what find_method_safe returns, None for null. *)
find_method_safe(c, name) ==
  LET Find[t \in Class \union {None}] ==
        IF t = None THEN None
        ELSE IF name \in Methods[t] THEN t ELSE Find[Super[t]]
  IN  Find[c]

AssignClass(r) ==
  /\ failed' = (r.name \notin Class)
  /\ docs' = IF failed' THEN docs
             ELSE [docs EXCEPT ![<<r.name, None>>] = [extends |-> Extends(r.owner), text |-> r.docs]]

AssignMethod(r) ==
  LET registered == r.owner \in Class /\ find_method_safe(r.owner, r.name) # None
  IN  /\ failed' = (r.owner # None /\ ~registered)
      /\ docs' = IF ~registered THEN docs
                 ELSE [docs EXCEPT ![<<find_method_safe(r.owner, r.name), r.name>>] =
                         [extends |-> << >>, text |-> r.docs]]

Assign ==
  /\ phase = "assign" /\ ~failed
  /\ IF pos <= Len(records)
     THEN /\ IF kind = "classes" THEN AssignClass(records[pos]) ELSE AssignMethod(records[pos])
          /\ pos' = pos + 1
          /\ UNCHANGED <<phase, kind>>
     ELSE /\ pos' = 0
          /\ IF kind = "classes" THEN kind' = "methods" /\ phase' = "decode"
                                 ELSE phase' = "done" /\ UNCHANGED kind
          /\ UNCHANGED <<docs, failed>>
  /\ UNCHANGED <<source, data, left, records>>

-----------------------------------------------------------------------------
Documented == {<<c, None>> : c \in Class} \union {<<c, m>> : c \in Class, m \in UNION {Methods[c] : c \in Class}}
Undocumented == [extends |-> << >>, text |-> None]

Init ==
  /\ phase = "encode" /\ kind = "classes" /\ pos = 0
  /\ source \in [{"classes", "methods"} -> UNION {Files[k] : k \in {"classes", "methods"}}]
  /\ \A k \in {"classes", "methods"} : source[k] \in Files[k]
  /\ data = [k \in {"classes", "methods"} |-> << >>]
  /\ left = 0
  /\ records = << >>
  /\ docs = [d \in Documented |-> Undocumented]
  /\ failed = FALSE

Next == Encode \/ Open \/ Decode \/ Close \/ Assign

Spec == Init /\ [][Next]_vars /\ WF_vars(Next)

-----------------------------------------------------------------------------
(***************************************************************************)
(* Properties.                                                             *)
(***************************************************************************)
(* While a blob is decoded the unsigned count of bytes left is what is     *)
(* left of it: it never wraps, and is zero only at the end.                *)
LeftExact ==
  phase = "decode" /\ pos > 0 /\ ~failed =>
    left = SizeFrom(data[kind], pos)

(* The decoders are the inverse of the encoders, which live in other       *)
(* programs: whatever the files hold, no magic, length or lookup is        *)
(* asserted in vain, and what is assigned are the sections of the file.    *)
RoundTrip ==
  /\ ~failed
  /\ phase = "assign" => records = source[kind]

(* Every section of a file.                                                *)
Sections(k) == ToSet(source[k])

(* Whatever the files hold, the program starts: no assertion fails, and it *)
(* ends with the text of every section at its own class or method, those   *)
(* of the classes under a heading of proper ancestors, nearest first, and  *)
(* nothing at the others.                                                  *)
Restored ==
  phase = "done" =>
    /\ \A c \in Class :
         LET own == {s \in Sections("classes") : s.name = c}
             doc == docs[<<c, None>>]
         IN  IF own = {} THEN doc = Undocumented
             ELSE /\ doc.text \in {s.docs : s \in own}
                  /\ \A i \in DOMAIN doc.extends :
                       doc.extends[i] = Super[IF i = 1 THEN c ELSE doc.extends[i - 1]]
    /\ \A c \in Class : \A m \in Methods[c] :
         LET own == {s \in Sections("methods") : s.owner = c /\ s.name = m}
         IN  IF own = {} THEN docs[<<c, m>>] = Undocumented
             ELSE docs[<<c, m>>].text \in {s.docs : s \in own}

(* The program comes up: the decoding of both blobs ends, no assertion     *)
(* having failed.                                                          *)
Populated == <>(phase = "done" /\ ~failed)
=============================================================================
