----------------------------- MODULE StrictJSON -----------------------------
(***************************************************************************)
(* The two checks strictjson makes of a document before Go's decoder sees  *)
(* it: no object has a key twice, and no key is a field of the target in   *)
(* another spelling (RejectCaseAliases, of state and of agent envelopes)   *)
(* or anything but a field of it (RejectNonExactFields, of the answer in   *)
(* Claude's output).  The decoder matches keys to fields without regard to *)
(* case and lets the last one win; the checks are there so that neither    *)
(* shows.                                                                  *)
(*                                                                         *)
(* A document is a tree: atoms, null, objects whose members are in order,  *)
(* and arrays.  "f" and "g" are names of fields, "F" is "f" in another     *)
(* spelling, "x" is no field.                                              *)
(***************************************************************************)
EXTENDS Integers, Sequences, SequencesExt, FiniteSets

CONSTANTS
  Width,   \* bound: members of an object
  Atoms    \* the plain values

VARIABLES
  input,   \* the document
  target,  \* the type it is decoded into
  exact,   \* RejectNonExactFields, or RejectCaseAliases
  verdict  \* pending, repeated, misspelt, accepted

vars == <<input, target, exact, verdict>>

-----------------------------------------------------------------------------
(* Documents. *)

Null == [t |-> "null"]
Plain == [t : {"atom"}, v : Atoms]
Objects(keys, values) ==
  [t : {"object"}, members : BoundedSeq([key : keys, value : values], Width)]
Arrays(values) == [t : {"array"}, items : BoundedSeq(values, 1)]
Shallow == Objects({"f", "F", "x"}, Plain)
Documents ==
  Objects({"f", "F", "g", "x"}, {Null} \cup Plain \cup Shallow \cup Arrays(Plain))
    \cup Arrays(Shallow)

-----------------------------------------------------------------------------
(* The types of the Go values decoded into: every form the checks tell     *)
(* apart, a value behind a field, a pointer, a slice and a map, and a      *)
(* field promoted from an embedded struct.                                 *)

Scalar == [k |-> "scalar"]
Opaque == [k |-> "opaque"]
Struct(fields, embeds) == [k |-> "struct", fields |-> fields, embeds |-> embeds]
Slice(type) == [k |-> "slice", elem |-> type]
MapOf(type) == [k |-> "map", elem |-> type]
Pointer(type) == [k |-> "pointer", elem |-> type]

Inner == Struct([f |-> Scalar], <<>>)
Targets ==
  {Struct([f |-> Inner, g |-> Scalar], <<>>),
   Struct([f |-> Pointer(Inner), g |-> MapOf(Inner)], <<>>),
   Struct([g |-> Slice(Scalar)], <<Inner>>),
   Struct([f |-> Opaque, g |-> Scalar], <<>>),
   MapOf(Inner),
   Slice(Inner)}

Init ==
  /\ input \in Documents /\ target \in Targets /\ exact \in BOOLEAN
  /\ verdict = "pending"

-----------------------------------------------------------------------------
(* RejectDuplicateKeys: scanValue reads token by token, one set of keys    *)
(* seen for each object that is open.                                      *)

RECURSIVE Unique(_)
(* Mutant: a nested object is skipped. *)
UniqueAtTop(v) ==
  v.t = "object" =>
    \A i, j \in DOMAIN v.members : v.members[i].key = v.members[j].key => i = j
Unique(v) ==
  CASE v.t = "object" ->
         /\ \A i, j \in DOMAIN v.members : v.members[i].key = v.members[j].key => i = j
         /\ \A i \in DOMAIN v.members : Unique(v.members[i].value)
    [] v.t = "array" -> \A i \in DOMAIN v.items : Unique(v.items[i])
    [] OTHER -> TRUE

-----------------------------------------------------------------------------
(* rejectFieldsAt *)

Folded(key) == IF key = "F" THEN "f" ELSE key

(* jsonFields: with the fields promoted from embedded structs. *)
RECURSIVE JsonFields(_)
JsonFields(type) ==
  LET promoted == {JsonFields(type.embeds[i]) : i \in DOMAIN type.embeds}
      names == DOMAIN type.fields \cup UNION {DOMAIN p : p \in promoted}
  IN [name \in names |->
        IF name \in DOMAIN type.fields THEN type.fields[name]
        ELSE (CHOOSE p \in promoted : name \in DOMAIN p)[name]]

(* Mutant: an answer may hold members the type does not know. *)
AnswerStranger(key, fields, strictly) ==
  \A name \in DOMAIN fields : Folded(name) # Folded(key)
Stranger(key, fields, strictly) ==
  ~strictly /\ \A name \in DOMAIN fields : Folded(name) # Folded(key)

RECURSIVE Fields(_, _, _)
Fields(v, type, strictly) ==
  CASE type.k = "pointer" -> v.t = "null" \/ Fields(v, type.elem, strictly)
    [] type.k \in {"opaque", "scalar"} -> TRUE
    [] v.t = "null" -> ~strictly
    [] type.k = "struct" ->
         /\ v.t = "object"
         /\ LET fields == JsonFields(type)
            IN \A i \in DOMAIN v.members :
                 LET m == v.members[i]
                 IN IF m.key \in DOMAIN fields THEN Fields(m.value, fields[m.key], strictly)
                    ELSE Stranger(m.key, fields, strictly)
    [] type.k = "slice" ->
         v.t = "array" /\ \A i \in DOMAIN v.items : Fields(v.items[i], type.elem, strictly)
    [] type.k = "map" ->
         v.t = "object" /\ \A i \in DOMAIN v.members : Fields(v.members[i].value, type.elem, strictly)

-----------------------------------------------------------------------------

Check ==
  /\ verdict = "pending"
  /\ verdict' = IF ~Unique(input) THEN "repeated"
                ELSE IF ~Fields(input, target, exact) THEN "misspelt" ELSE "accepted"
  /\ UNCHANGED <<input, target, exact>>

Next == Check
Spec == Init /\ [][Next]_vars

-----------------------------------------------------------------------------
(* Go's decoder.  A struct takes a member for the field of that name, or   *)
(* of that name in another spelling, over what is there; others are left.  *)

Matching(fields, key) ==
  IF key \in DOMAIN fields THEN {key} ELSE {name \in DOMAIN fields : Folded(name) = Folded(key)}

RECURSIVE Zero(_), Decode(_, _, _)
Zero(type) ==
  IF type.k = "struct" THEN LET fields == JsonFields(type) IN [name \in DOMAIN fields |-> Zero(fields[name])]
  ELSE <<>>
Decode(old, v, type) ==
  CASE v.t = "null" -> IF type.k \in {"struct", "scalar"} THEN old ELSE <<>>
    [] v.t # "null" /\ type.k = "pointer" -> Decode(Zero(type.elem), v, type.elem)
    [] type.k = "struct" /\ v.t = "object" ->
         LET fields == JsonFields(type)
             Put(value, m) ==
               [name \in DOMAIN fields |->
                  IF name \in Matching(fields, m.key) THEN Decode(value[name], m.value, fields[name])
                  ELSE value[name]]
         IN FoldLeft(Put, old, v.members)
    [] type.k = "slice" /\ v.t = "array" ->
         [i \in DOMAIN v.items |-> Decode(Zero(type.elem), v.items[i], type.elem)]
    [] type.k = "map" /\ v.t = "object" ->
         [key \in {v.members[i].key : i \in DOMAIN v.members} |->
            LET last == CHOOSE i \in DOMAIN v.members :
                          /\ v.members[i].key = key
                          /\ \A j \in DOMAIN v.members : v.members[j].key = key => j =< i
            IN Decode(Zero(type.elem), v.members[last].value, type.elem)]
    [] OTHER -> IF v.t = "atom" THEN <<v.v>> ELSE <<v.t>>
Decoded(v) == Decode(Zero(target), v, target)

-----------------------------------------------------------------------------
(* Properties. *)

(* The same document with the members of every object in another order.    *)
RECURSIVE Reordered(_)
Reordered(v) ==
  CASE v.t = "object" ->
         [v EXCEPT !.members = Reverse([i \in DOMAIN @ |-> [@[i] EXCEPT !.value = Reordered(@)]])]
    [] v.t = "array" -> [v EXCEPT !.items = [i \in DOMAIN @ |-> Reordered(@[i])]]
    [] OTHER -> v

(* The part of a document that a type has a place for.                     *)
RECURSIVE Known(_, _)
Known(v, type) ==
  CASE type.k = "pointer" -> Known(v, type.elem)
    [] type.k = "struct" /\ v.t = "object" ->
         LET fields == JsonFields(type)
             Part(m) == [m EXCEPT !.value = Known(m.value, fields[m.key])]
             kept == SelectSeq(v.members, LAMBDA m : m.key \in DOMAIN fields)
         IN [v EXCEPT !.members = [i \in DOMAIN kept |-> Part(kept[i])]]
    [] type.k = "slice" /\ v.t = "array" ->
         [v EXCEPT !.items = [i \in DOMAIN @ |-> Known(@[i], type.elem)]]
    [] type.k = "map" /\ v.t = "object" ->
         [v EXCEPT !.members = [i \in DOMAIN @ |-> [@[i] EXCEPT !.value = Known(@, type.elem)]]]
    [] OTHER -> v

(* What is decoded from an accepted document does not depend on the order  *)
(* of its members: no field is given twice, in one spelling or in two, at  *)
(* any depth ("a repeated field spelled two ways would slip past").        *)
OrderIrrelevant == verdict = "accepted" => Decoded(input) = Decoded(Reordered(input))

(* Nothing is decoded from a member the target does not know, and what     *)
(* passed RejectNonExactFields has no such member.                         *)
NothingIgnored ==
  verdict = "accepted" =>
    /\ Decoded(input) = Decoded(Known(input, target))
    /\ exact => Known(input, target) = input
=============================================================================
