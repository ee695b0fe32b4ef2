------------------------------- MODULE MCWeb --------------------------------
(***************************************************************************)
(* The web server on small instances: the connections (Httpd), the reading *)
(* of a file for one of them (EspFs), the expansion of a page              *)
(* (EspFsTemplate), and, on the host, the packing of a file                *)
(* (HeatshrinkEncoder) into the image that files are found in              *)
(* (EspFsImage), and the walk through the table of addresses with the      *)
(* login (Login).  Httpd knows of a file only how much each read gives,    *)
(* and the others nothing of connections, so that each is explored on its  *)
(* own: part says which.                                                   *)
(***************************************************************************)
EXTENDS Httpd, SequencesExt

CONSTANTS c1, c2,
          Names, Sizes, MaxFiles,                     \* EspFsImage
          Pages, Others, Users, Passwords, MaxText    \* Login

VARIABLES part,
          file, compressed, posComp, dec, decoded, fileSent, pc, cut,
          page, pos, token, pageSent, called, done, dropped,
          input, sunk, hse, tokens, bits, flushed, packPc, stored,
          headers, end, content, wanted, p, opened,
          sysCfg, remoteip, asked, entry, by, wasIn

Req(kind, head, body, reads) == [page |-> kind, head |-> head, body |-> body, reads |-> reads]
MCRequests ==
    { Req("cgi", 2, 0, <<>>), Req("cgi", 1, 5, <<>>), Req("file", 1, 0, <<2, 1>>),
      Req("file", 1, 0, <<2, 0>>), Req("file", 1, 3, <<1>>), Req("mute", 1, 0, <<>>), Req("none", 1, 0, <<>>),
      Req("method", 1, 0, <<>>) }

F == INSTANCE EspFs WITH sent <- fileSent, ByteBits <- 4, WindowBits <- 2,
                         LookaheadBits <- 1, InSize <- 2, Chunk <- 3, Files <- {}

MCTokens == {F!Literal(v) : v \in 1..2} \union {F!Repeat(off, len) : off \in 1..4, len \in 1..2}
MCFiles ==
    {f \in UNION {[1..n -> MCTokens] : n \in 1..4} :
        \A i \in DOMAIN f : f[i].off <= Len(F!Plain(SubSeq(f, 1, i - 1)))}

E == INSTANCE EspFs WITH sent <- fileSent, ByteBits <- 4, WindowBits <- 2,
                         LookaheadBits <- 1, InSize <- 2, Chunk <- 3, Files <- MCFiles

MCValue(t) == <<"<">> \o t \o <<">">>

T == INSTANCE EspFsTemplate WITH sent <- pageSent, Chunk <- 3, TokenSize <- 3,
                                 SendSize <- 6, Value <- MCValue,
                                 Pages <- BoundedSeq({"a", "%"}, 9)

\* Words with a period, and one byte of them changed: repetitions of every
\* kind, over more than two windows.
Periodic(w, n) == [i \in 1..n |-> w[((i - 1) % Len(w)) + 1]]
MCWords == BoundedSeq({1, 2}, 3) \ {<<>>}
MCInputs ==
    {Periodic(w, n) : w \in MCWords, n \in 1..18}
      \union {[Periodic(w, 18) EXCEPT ![c] = 0] : w \in MCWords, c \in {4, 9, 14}}

K == INSTANCE HeatshrinkEncoder WITH pc <- packPc, ByteBits <- 4, WindowBits <- 3,
                                     LookaheadBits <- 2, BreakEven <- 3, Inputs <- MCInputs

MCNames == {[text |-> t, len |-> l] : t \in {"x", "y"}, l \in {3, 4, 6}}
M == INSTANCE EspFsImage

\* A name has a length, and no file has the empty name.
ASSUME ImageAssumption ==
    /\ \A name \in Names : name.len \in Nat
    /\ M!NoName \notin Names
    /\ Sizes \subseteq Nat

MCPages == {<<"index", ".tpl">>, <<"config", "mqtt", ".tpl">>, <<"style", ".css">>}
MCOthers == {<<"style", ".css">>, <<"config", "other">>, <<"nothing">>, <<"config">>,
             <<"", "config", "mqtt", ".tpl">>}
MCUsers == {<<97, 58>>, <<97>>}
MCPasswords == {<<255>>, <<58, 255>>}
L == INSTANCE Login WITH Clients <- Conns, Nobody <- None, request <- asked, i <- entry,
                         Files <- Pages

\* Addresses are sequences of pieces, names and passwords of bytes; and what a
\* browser makes of a name and a password is decoded to it, which is so if the
\* text fits.
ASSUME LoginAssumption ==
    /\ Others \subseteq Seq(STRING)
    /\ Users \union Passwords \subseteq Seq(0..255)
    /\ \A typed \in L!Typed :
          L!Decoded(L!Encoded(typed)) = typed.user \o <<L!Colon>> \o typed.pass

\* A part that is not looked at.
NoHttpd == slot = None /\ stack = None /\ request = None /\ toSend = None
           /\ inflight = None /\ answers = None /\ files = None
           /\ forgotten = None /\ lost = None /\ mixed = None
NoEspFs == file = None /\ compressed = None /\ posComp = None /\ dec = None
           /\ decoded = None /\ fileSent = None /\ pc = None /\ cut = None
NoPage == page = None /\ pos = None /\ token = None /\ pageSent = None
          /\ called = None /\ done = None /\ dropped = None
NoPacking == input = None /\ sunk = None /\ hse = None /\ tokens = None
             /\ bits = None /\ flushed = None /\ packPc = None /\ stored = None
NoImage == headers = None /\ end = None /\ content = None /\ wanted = None
           /\ p = None /\ opened = None
NoLogin == sysCfg = None /\ remoteip = None /\ asked = None /\ entry = None
           /\ by = None /\ wasIn = None

MCInit ==
    \/ part = "connections" /\ Init /\ NoEspFs /\ NoPage /\ NoPacking /\ NoImage /\ NoLogin
    \/ part = "file" /\ NoHttpd /\ E!Init /\ NoPage /\ NoPacking /\ NoImage /\ NoLogin
    \/ part = "page" /\ NoHttpd /\ NoEspFs /\ T!Init /\ NoPacking /\ NoImage /\ NoLogin
    \/ part = "pack" /\ NoHttpd /\ NoEspFs /\ NoPage /\ K!Init /\ NoImage /\ NoLogin
    \/ part = "image" /\ NoHttpd /\ NoEspFs /\ NoPage /\ NoPacking /\ M!Init /\ NoLogin
    \/ /\ part = "login" /\ L!Init
       /\ NoHttpd /\ NoEspFs /\ NoPage /\ NoPacking /\ NoImage

espFsVars == <<file, compressed, posComp, dec, decoded, fileSent, pc, cut>>
pageVars == <<page, pos, token, pageSent, called, done, dropped>>
packVars == <<input, sunk, hse, tokens, bits, flushed, packPc, stored>>
imageVars == <<headers, end, content, wanted, p, opened>>
loginVars == <<sysCfg, remoteip, asked, entry, by, wasIn>>
served == <<vars, espFsVars, pageVars>>
others == <<packVars, imageVars, loginVars>>
allVars == <<part, vars, espFsVars, pageVars, others>>

Connections(A) == part = "connections" /\ A /\ UNCHANGED <<part, espFsVars, pageVars, others>>
Reading == part = "file" /\ E!Next /\ UNCHANGED <<part, vars, pageVars, others>>
Expanding == part = "page" /\ T!Next /\ UNCHANGED <<part, vars, espFsVars, others>>
Packing == part = "pack" /\ K!Next /\ UNCHANGED <<part, served, imageVars, loginVars>>
Finding == part = "image" /\ M!Next /\ UNCHANGED <<part, served, packVars, loginVars>>
LoggingIn == part = "login" /\ L!Next /\ UNCHANGED <<part, served, packVars, imageVars>>

MCNext ==
    \/ Connections(Next) \/ Reading \/ Expanding \/ Packing \/ Finding \/ LoggingIn

\* The fairness of Httpd, and the loops of espFsRead and of the encoder, which
\* go on.
MCSpec ==
    /\ MCInit /\ [][MCNext]_allVars
    /\ \A c \in Conns : /\ WF_vars(Connections(Recv(c)))
                        /\ WF_vars(Connections(Sent(c)))
                        /\ WF_vars(Connections(Closed(c)))
    /\ WF_espFsVars(Reading)
    /\ WF_packVars(Packing)
-----------------------------------------------------------------------------
\* Variables of the part that is explored have their types.
PartsTypeOK ==
    /\ part = "connections" => TypeOK
    /\ part = "file" => E!TypeOK
    /\ part = "page" => T!TypeOK
    /\ part = "pack" => K!TypeOK
    /\ part = "image" => M!TypeOK
    /\ part = "login" => L!TypeOK

\* Httpd: callbacks in any order close every open file, once, but those that
\* were opened again for a further part of a body; slots and connections match,
\* but for connections that broke off; and a client gets the answer to its own
\* request, and gets it once.  Login: an address has its own handler, the
\* handlers below /config/ and /control/ are for those who logged in, and these
\* are let in.
ConnectionsRight ==
    /\ part = "connections" => NoFileLost /\ SlotsMatch /\ AnsweredOnce
    /\ part = "login" => L!ProtectedAsMeant /\ L!WelcomeWhenKnown /\ L!OwnHandlerAnswers

\* espFsRead and cgiEspFsTemplate: pieces of input and output put together
\* give a part of the file, and all of it unless a full read was the last to
\* see input; the input buffer of the decoder does not overflow; and tokens
\* are found and replaced wherever chunks are cut.  HeatshrinkEncoder and
\* EspFsImage: what the host packs expands to the file, and every file of an
\* image is found at its own bytes.
FilesRight ==
    /\ part = "file" => E!SendsPrefix /\ E!InputFits /\ E!WholeFile
    /\ part = "page" => T!PageExpanded
    /\ part = "pack" => K!EncodesPrefix /\ K!StoredExpands
    /\ part = "image" => M!FilesFound

\* Httpd: a request that was read is answered and its connection closed; and
\* every file is read, and packed, to an end.
WebAnswers ==
    /\ \A c \in Conns :
          (part = "connections" /\ stack[c] = "open" /\ toSend[c] = 0
             /\ Speaks(request[c]) /\ c \notin lost)
              ~> (part = "connections" /\ (stack[c] # "open" \/ mixed))
    /\ part = "file" ~> pc = "done"
    /\ part = "pack" ~> packPc = "done"
=============================================================================
