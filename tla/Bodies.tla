-------------------------------- MODULE Bodies --------------------------------
(* The bodies of packets and what the transformers of src/transformers do to  *)
(* them. A body is the fields in it, in order: `as` is how a field is written *)
(* on the wire, `v` its value, and `is` what it means. Nothing on the wire    *)
(* says what a field means or how it is written: a transformer reads what it  *)
(* believes is there. So a transformer here names, for every field it reads,  *)
(* the kind it reads it as and what the code takes it for; where the field is *)
(* another, the outcome is "misread", and whatever the code would have made   *)
(* of the bytes, the peer gets another packet than the one that was sent.     *)
EXTENDS Integers, Sequences, SequencesExt

\* A layout is a sequence of <<is, as>>; these fields, all of one kind.
As(kind, names) == [i \in DOMAIN names |-> <<names[i], kind>>]

Body(fields) == [fields |-> fields, end |-> "whole"]
Refused == [fields |-> <<>>, end |-> "refused"]
Misread == [fields |-> <<>>, end |-> "misread"]

\* A body of that layout, each field with its value.
Written(layout, value(_)) ==
  [i \in DOMAIN layout |->
     [is |-> layout[i][1], as |-> layout[i][2], v |-> value(layout[i][1])]]

Layout(body) == [i \in DOMAIN body |-> <<body[i].is, body[i].as>>]

\* The value of the one field of a body that means that, and whether it has it.
Of(body, name) ==
  LET i == CHOOSE j \in DOMAIN body : body[j].is = name IN body[i].v
Has(body, name) == \E j \in DOMAIN body : body[j].is = name

(* What a transformer has when it has read a layout off the front of a body:  *)
(* the values it read, by what it takes them for, and what is left unread.    *)
Read(body, layout) ==
  LET n == Len(layout)
      fits == n <= Len(body) /\ Layout(SubSeq(body, 1, n)) = layout
  IN  [fits |-> fits,
       v    |-> [name \in {layout[i][1] : i \in DOMAIN layout} |->
                   IF fits THEN body[CHOOSE i \in DOMAIN layout :
                                       layout[i][1] = name].v ELSE 0],
       rest |-> IF fits THEN SubSeq(body, n + 1, Len(body)) ELSE <<>>]

(* What it writes: a value it has of its own goes before one it has read.     *)
(* WriteThen copies what is left behind it (copyRest); WriteOnly writes       *)
(* nothing more, and what it left unread is gone; WriteAll refuses a body     *)
(* that goes on (refuseRest).                                                 *)
Put(r, layout, own) ==
  Written(layout, LAMBDA name : IF name \in DOMAIN own THEN own[name] ELSE r.v[name])

WriteThen(r, layout, own) ==
  IF r.fits THEN Body(Put(r, layout, own) \o r.rest) ELSE Misread

WriteOnly(r, layout, own) ==
  IF r.fits THEN Body(Put(r, layout, own)) ELSE Misread

WriteAll(r, layout, own) ==
  IF ~r.fits THEN Misread
  ELSE IF r.rest # <<>> THEN Refused
  ELSE Body(Put(r, layout, own))

\* Everything as it is, and fields of its own behind it.
WriteBehind(body, layout, own) ==
  Body(body \o Written(layout, LAMBDA name : own[name]))

\* The transformer goes on only where the condition holds of what it read.
Where(r, holds, written) ==
  IF ~r.fits THEN Misread ELSE IF holds THEN written ELSE Refused

\* Nothing of its own to write.
None == <<>>

===============================================================================
