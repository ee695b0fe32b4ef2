------------------------------- MODULE CaptDns -------------------------------
(***************************************************************************)
(* The name server of the access point (captdns.c), which gives its own    *)
(* address for every name: captdnsRecv takes the names out of the          *)
(* questions of a packet, with labelToStr, and puts each into an answer,   *)
(* with strToLabel.  A turn of the loop of labelToStr is a step.           *)
(*                                                                         *)
(* A packet is the sequence of the bytes after its header.  It has the     *)
(* questions that a resolver asks: names that are not the root, and in     *)
(* which a label has no dot, written out or ending with a pointer into the *)
(* first, which is written out.  The values of the answers are left out.   *)
(***************************************************************************)
EXTENDS SequencesExt, Integers

CONSTANTS HeaderSize,  \* sizeof(DnsHeader), 12
          Names,       \* names, sequences of labels, which are sequences of bytes
          MaxQuestions \* bound: questions in a packet

VARIABLES header,      \* what captdnsRecv looks at in it
          questions,   \* history: what was asked
          packet,      \* their bytes
          q,           \* how many were read
          p, end,      \* labelPtr and endPtr, from the start of the packet
          res,         \* the name as a text with dots
          answers,
          pc

vars == <<header, questions, packet, q, p, end, res, answers, pc>>

A == 1
NS == 2
AAAA == 28
URI == 256
Dot == 46
Null == -1
Pointer == 192     \* 0xC0
FooterSize == 4
-----------------------------------------------------------------------------
(* Packets, as a resolver makes them.                                      *)

Labelled(name) == FlattenSeq([k \in 1..Len(name) |-> <<Len(name[k])>> \o name[k]])
Plain(name) == Labelled(name) \o <<0>>

\* Of name the first labels, and a pointer to the others in the first name.
Compressed(name, kept, first) ==
    LET common == Len(name) - kept
        before == SubSeq(first, 1, Len(first) - common) IN
    Labelled(SubSeq(name, 1, kept)) \o <<Pointer, HeaderSize + Len(Labelled(before))>>

Forms(name, first) ==
    {Plain(name)} \union
    {Compressed(name, kept, first) :
        kept \in {k \in 0..(Len(name) - 1) : IsSuffix(SubSeq(name, k + 1, Len(name)), first)}}

Footer(type) == <<type \div 256, type % 256, 0, 1>>

\* The packets with these questions.
Packets(qs) ==
    LET Forming(k) == IF k = 1 THEN {Plain(qs[1].name)} ELSE Forms(qs[k].name, qs[1].name)
        Add(bodies, k) ==
            {body \o name \o Footer(qs[k].type) : body \in bodies, name \in Forming(k)}
    IN  FoldLeft(Add, {<<>>}, [k \in 1..Len(qs) |-> k])

Questions == [name : Names, type : {A, NS, AAAA, URI}]
Headers == {"query", "truncated", "reply"}   \* with other records than questions

TypeOK ==
    /\ header \in Headers
    /\ questions \in BoundedSeq(Questions, MaxQuestions)
    /\ packet \in Seq(0..255)
    /\ q \in 0..Len(questions)
    /\ p \in HeaderSize..(HeaderSize + Len(packet)) /\ end \in {Null} \union Nat
    /\ res \in Seq(1..255)
    /\ \A k \in DOMAIN answers :
          answers[k].label \in Seq(0..255) /\ answers[k].type \in {A, NS, URI}
    /\ pc \in {"check", "next", "label", "footer", "sent", "ignored"}

Init ==
    /\ header \in Headers
    /\ questions \in BoundedSeq(Questions, MaxQuestions) \ {<<>>}
    /\ packet \in Packets(questions)
    /\ q = 0
    /\ p = HeaderSize /\ end = Null
    /\ res = <<>>
    /\ answers = <<>>
    /\ pc = "check"
-----------------------------------------------------------------------------
ByteAt(k) == packet[k - HeaderSize + 1]
Number(k) == 256 * ByteAt(k) + ByteAt(k + 1)

\* The sanity checks of captdnsRecv.
Check ==
    /\ pc = "check"
    /\ pc' = IF header = "query" THEN "next" ELSE "ignored"
    /\ UNCHANGED <<header, questions, packet, q, p, end, res, answers>>

\* The loop over the questions.
NextQuestion ==
    /\ pc = "next"
    /\ IF q < Len(questions) THEN pc' = "label" ELSE pc' = "sent"
    /\ end' = Null /\ res' = <<>>
    /\ UNCHANGED <<header, questions, packet, q, p, answers>>

\* A faulty text without the dots.
Joined_NoDot(text, label) == text \o label

\* A label is added to the text.
Joined(text, label) == IF text = <<>> THEN label ELSE text \o <<Dot>> \o label

\* A turn of the loop of labelToStr: a label, or a pointer.
labelToStr ==
    /\ pc = "label"
    /\ LET n == ByteAt(p) IN
       IF n < Pointer
       THEN /\ res' = Joined(res, [k \in 1..n |-> ByteAt(p + k)])
            /\ p' = p + 1 + n
            /\ UNCHANGED end
       ELSE /\ end' = p + 2
            /\ p' = Number(p) % 2^14
            /\ UNCHANGED res
    /\ pc' = IF p' > HeaderSize + Len(packet) THEN "ignored"
             ELSE IF ByteAt(p') = 0 THEN "footer" ELSE "label"
    /\ UNCHANGED <<header, questions, packet, q, answers>>

\* A faulty end that is where the name was read to.
AfterName_Followed == p + 1

\* What labelToStr returns.
AfterName == IF end = Null THEN p + 1 ELSE end

\* A faulty length that counts its own byte.
Length_WithOwn(label) == Len(label) + 1

\* (p-len)-1
Length(label) == Len(label)

\* From dot to dot, and to the end of the text.
strToLabel(str) ==
    LET Add(r, ch) ==
          IF ch \in {Dot, 0}
          THEN [out |-> r.out \o <<Length(r.label)>> \o r.label, label |-> <<>>]
          ELSE [r EXCEPT !.label = Append(@, ch)]
    IN  FoldLeft(Add, [out |-> <<>>, label |-> <<>>], str \o <<0>>).out \o <<0>>

\* The footer of a question, and its answer, if it has one.
Answer ==
    /\ pc = "footer"
    /\ LET type == Number(AfterName) IN
       answers' = IF type \in {A, NS, URI}
                  THEN Append(answers, [label |-> strToLabel(res), type |-> type]) ELSE answers
    /\ p' = AfterName + FooterSize
    /\ q' = q + 1
    /\ pc' = "next"
    /\ UNCHANGED <<header, questions, packet, end, res>>

Next == Check \/ NextQuestion \/ labelToStr \/ Answer

Spec == Init /\ [][Next]_vars
-----------------------------------------------------------------------------
\* Every question for a type the board knows is answered, in order, with the
\* name that was asked, wherever its labels are in the packet; and a packet is
\* thrown away only for its header.
AnswersRight ==
    /\ pc = "sent" =>
          LET known == SelectSeq(questions, LAMBDA x : x.type \in {A, NS, URI}) IN
          answers = [k \in DOMAIN known |->
                        [label |-> Plain(known[k].name), type |-> known[k].type]]
    /\ pc = "ignored" => header # "query"
=============================================================================
