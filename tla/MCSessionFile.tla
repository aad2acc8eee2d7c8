---------------------------- MODULE MCSessionFile ----------------------------
(***************************************************************************)
(* Instances of SessionFile for TLC.  Of the frames one has no data.  The  *)
(* first schema has two messages, the first with two signals, one of which *)
(* the second has too; the second schema has a signal named "ID".  A       *)
(* message may lack a signal, have its signals in another order than the   *)
(* schema, be of no schema, or have a value that CSV has to round.  Three  *)
(* messages are two pages of two, and more cells than the buffer holds.    *)
(***************************************************************************)
EXTENDS SessionFile, TLC

CONSTANT d1  \* the data bytes of a frame

MCFrames == {[id |-> 1, dlc |-> 0, data |-> d1], [id |-> 2, dlc |-> 1, data |-> d1]}

MCMessages ==
  {[id |-> 1, values |-> "a" :> 20 @@ "b" :> 34],
   [id |-> 2, values |-> "b" :> 10],
   [id |-> 3, values |-> "b" :> 10]}

Group(id, names) == [msgId |-> id, signals |-> names]

MCSchemas == {<<Group(1, <<"b", "a">>), Group(2, <<"b">>)>>, <<Group(2, <<"ID">>)>>}
=============================================================================
