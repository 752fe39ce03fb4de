------------------------------ MODULE MCIngest ------------------------------
(* Small instances of Ingest.                                               *)
EXTENDS Ingest, TLC

CONSTANTS
  a20, b20, b10, truck,  \* posts: phone a or b, 20 or 10 tonnes; a truck
  a, b, t20, t10,        \* keys: phone and route, content
  w1, w2

\* A post sets the key of its phone, then the key of its content.
PhoneThenContent ==
  (a20 :> <<a, t20>>) @@ (b20 :> <<b, t20>>) @@ (b10 :> <<b, t10>>) @@ (truck :> <<a>>)

KeysOfPost == [p \in Post |-> PhoneThenContent[p]]

\* Only b20 may fail the screening: for the keys the others' verdicts tell
\* nothing new.
SomeVerdicts == [p \in Post |-> IF p = b20 THEN {"manual_review", "cargo"} ELSE {"cargo"}]

AllCargo == [p \in Post |-> {"cargo"}]

\* The workers differ in nothing (runs of safety only).
Interchangeable == Permutations(Worker)
=============================================================================
