-------------------------- MODULE MCClientHandshake ---------------------------
(* Small instances of ClientHandshake for TLC: responses spelled with one      *)
(* letter for each of the names and values that clientHandshake tells apart.   *)
EXTENDS ClientHandshake, SequencesExt

Accept == <<65>>    \* "Sec-WebSocket-Accept"
accept == <<97>>    \* the same in lower case
Other == <<79>>     \* another header's name
Right == <<75>>     \* the calculated key
Wrong == <<78>>
Names == {Accept, accept}

Header(name, spaces, value) == [name |-> name, spaces |-> spaces, value |-> value]
Status == <<72, CR, LF>>

\* A response of these header fields.
Lines(fields) == Status \o FlattenSeq([i \in DOMAIN fields |-> FieldLine(fields[i])])
Proves(fields) == \E i \in DOMAIN fields : fields[i].name \in Names /\ fields[i].value = Right
Answer(fields) ==
  LET head == Lines(fields) \o <<CR, LF>>
  IN [bytes |-> head, head |-> Len(head), proves |-> Proves(fields)]

\* The server closed before it had sent the whole header.
CutOff(r, n) == [r EXCEPT !.bytes = SubSeq(r.bytes, 1, n)]

HonestFields ==
  {<<Header(Accept, 1, Right)>>,
   <<Header(accept, 0, Right), Header(Other, 1, Wrong)>>,
   <<Header(Other, 2, Wrong), Header(Accept, 1, Right)>>}

OtherFields ==
  {<<>>,
   <<Header(Other, 1, Right)>>,
   <<Header(Accept, 1, Right \o Wrong)>>,
   <<Header(Accept, 1, Wrong), Header(Other, 1, Right)>>,
   <<Header(Accept, 1, <<>>)>>}

CutAnswer == CutOff(Answer(<<Header(Accept, 1, Right)>>), 7)
AllAnswers == {Answer(fields) : fields \in HonestFields \union OtherFields} \union {CutAnswer}

\* The theorems about well-formed answers speak of these.
Offsets(fields) == [i \in 1..Len(fields) + 1 |-> Len(Lines(SubSeq(fields, 1, i - 1)))]
ASSUME AnswersWellFormed ==
  /\ \A fields \in HonestFields \union OtherFields :
       /\ fields \in Seq(Field)
       /\ HasFields(Answer(fields), fields, Offsets(fields))
       /\ ProvesByField(Answer(fields), fields)
  /\ LET whole == <<Header(Accept, 1, Right)>>
     IN HasFields(CutAnswer, whole, Offsets(whole)) /\ ProvesByField(CutAnswer, whole)

UpgradeRequest == <<71>>
===============================================================================
