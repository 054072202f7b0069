---------------------------- MODULE MCCasUpload ----------------------------
(* Instances of CasUpload for TLC: two workers, two contents of the same    *)
(* length and one of another, and a bucket that holds an object uploaded    *)
(* before beside one without metadata, or nothing but objects another       *)
(* program wrote: wrong bytes, wrong length, metadata that names others.    *)
EXTENDS CasUpload, TLC

CONSTANTS p1, p2, a, b, c

MCSize  == [x \in Contents |-> IF x = c THEN 2 ELSE 1]
MCKnown == p1 :> a

Object(bytes, meta) == [bytes |-> bytes, meta |-> meta]

UploadedBefore == {a :> Object(a, a)}

TwoStores == {a :> Object(a, NoMetadata) @@ b :> Object(b, b),
              a :> Object(b, NoMetadata) @@ b :> Object(b, a) @@ c :> Object(a, NoMetadata)}
=============================================================================
