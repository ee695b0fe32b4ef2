------------------------------- MODULE Login -------------------------------
(***************************************************************************)
(* Which handler gets a request: httpdProcessRequest (httpd.c) walks       *)
(* through the table of addresses of user_main.c from the top, and         *)
(* authBasic (auth.c) is a handler in it that lets a request go on, or     *)
(* answers it.  The walk is one callback, with a step here for each entry  *)
(* that matches.  A handler is known by its entry; of what they do only    *)
(* the change of name and password matters (cgiHTTPD).                     *)
(*                                                                         *)
(* An address is the sequence of its pieces, between its slashes and with  *)
(* the ending apart, a text the sequence of its bytes.                     *)
(***************************************************************************)
EXTENDS SequencesExt, FiniteSetsExt, Integers

CONSTANTS Clients,     \* addresses of clients
          Nobody,      \* 0.0.0.0
          Files,       \* files in the image
          Others,      \* addresses that are asked for and not in the table
          Users, Passwords,
          MaxText      \* sizeof(userpass)

VARIABLES sysCfg,      \* auth, user and pass
          remoteip,    \* who logged in last
          request,     \* from, url, what was typed as user and password
          i,           \* the place in the table, 0 when nothing is asked
          by,          \* who answered, "-" before
          wasIn        \* history: who has logged in since the start

vars == <<sysCfg, remoteip, request, i, by, wasIn>>

Entry(url, cgi) == [url |-> url, any |-> FALSE, cgi |-> cgi]
Under(url, cgi) == [url |-> url, any |-> TRUE, cgi |-> cgi]
Page(dir, name) == Entry(<<dir, name, ".tpl">>, "template")
Both(dir, name) == <<Page(dir, name), Entry(<<dir, name, ".cgi">>, name)>>
Barriers == <<Under(<<"config">>, "auth"), Under(<<"control">>, "auth")>>
Home == <<Entry(<<>>, "redirect"), Entry(<<"index", ".tpl">>, "template"),
          Entry(<<"about", ".tpl">>, "template")>>
Control ==
    <<Page("control", "ui")>>
      \o Both("control", "relay") \o Both("control", "ws2812b") \o Both("control", "dht22")
      \o Both("control", "ds18b20")
      \o <<Entry(<<"control", "state", ".cgi">>, "state"),
           Entry(<<"control", "reset", ".cgi">>, "reset")>>
      \o Both("control", "thermostat") \o Both("control", "max31855")
      \o Both("control", "si7020") \o Both("control", "mlx91205")
      \o <<Entry(<<"control", "pwm", ".cgi">>, "pwm")>>
Config ==
    <<Entry(<<"config", "wifi">>, "redirect"), Entry(<<"config", "wifi", "">>, "redirect"),
      Entry(<<"config", "wifi", "wifiscan", ".cgi">>, "wifiscan"),
      Entry(<<"config", "wifi", "wifi", ".tpl">>, "template"),
      Entry(<<"config", "wifi", "connect", ".cgi">>, "connect"),
      Entry(<<"config", "wifi", "setmode", ".cgi">>, "setmode"),
      Entry(<<"config", "wifi", "connstatus", ".cgi">>, "connstatus")>>
      \o Both("config", "mqtt") \o Both("config", "httpd") \o Both("config", "broadcastd")
      \o Both("config", "config") \o Both("config", "ntp") \o Both("config", "relay")
      \o Both("config", "sensor")
Rest == <<Under(<<>>, "file")>>

\* A faulty table with the barriers below what they protect.
builtInUrls_Below == Home \o Control \o Config \o Barriers \o Rest

\* The table, with every option of the build.
builtInUrls == Home \o Barriers \o Control \o Config \o Rest

\* "/config/*" matches what starts with "/config/".
Matches(entry, url) ==
    IF entry.any THEN IsPrefix(entry.url, url) /\ (entry.url = <<>> \/ entry.url # url)
    ELSE entry.url = url

\* The name espFsOpen looks for: it strips the slashes an address begins with.
Stripped(url) ==
    LET named == {k \in DOMAIN url : url[k] # ""}
    IN  IF named = {} THEN <<>> ELSE SubSeq(url, Min(named), Len(url))

Urls == {entry.url : entry \in Range(builtInUrls)} \union Others
Typed == [user : Users, pass : Passwords]
NoText == [user |-> <<>>, pass |-> <<>>]
NoRequest == [from |-> Nobody, url |-> <<>>, typed |-> NoText]

TypeOK ==
    /\ sysCfg \in [auth : BOOLEAN, user : Users, pass : Passwords]
    /\ remoteip \in Clients \union {Nobody}
    /\ request.from \in Clients \union {Nobody} /\ request.typed \in Typed \union {NoText}
    /\ i \in 0..(Len(builtInUrls) + 1) /\ by \in STRING
    /\ wasIn \subseteq Clients

Init ==
    /\ sysCfg \in [auth : BOOLEAN, user : Users, pass : Passwords]
    /\ remoteip = Nobody
    /\ request = NoRequest
    /\ i = 0
    /\ by = "-"
    /\ wasIn = {}
-----------------------------------------------------------------------------
Colon == 58

\* user:password in base 64, as a browser makes it: three bytes to four
\* characters, of which only the values matter; "=" is left out.
Encoded(typed) ==
    LET text == typed.user \o <<Colon>> \o typed.pass
        Bit(n) == LET k == (n - 1) \div 8 + 1 IN
                  IF k > Len(text) THEN 0 ELSE (text[k] \div 2^(7 - ((n - 1) % 8))) % 2
    IN [c \in 1..((8 * Len(text) + 5) \div 6) |->
          FoldLeft(LAMBDA v, n : 2 * v + Bit(6 * (c - 1) + n), 0, <<1, 2, 3, 4, 5, 6>>)]

\* A faulty test that waits for one more bit.
Complete_Late(rem) == rem > 8

\* if(rem>=8)
Complete(rem) == rem >= 8

\* base64_decode2; of v only the rem lowest bits are looked at again.  A text
\* that does not fit is an empty one.
Decoded(code) ==
    LET Add(d, ch) ==
          LET v == d.v * 64 + ch
              rem == d.rem + 6 IN
          IF Complete(rem)
          THEN [v |-> v % 2^(rem - 8), rem |-> rem - 8,
                out |-> Append(d.out, (v \div 2^(rem - 8)) % 256)]
          ELSE [v |-> v, rem |-> rem, out |-> d.out]
        out == FoldLeft(Add, [v |-> 0, rem |-> 0, out |-> <<>>], code).out
    IN  IF Len(out) > MaxText THEN <<>> ELSE out

\* The comparison of authBasic.
Accepted(userpass) ==
    LET n == Len(sysCfg.user) IN
    /\ Len(userpass) = n + Len(sysCfg.pass) + 1
    /\ SubSeq(userpass, 1, n) = sysCfg.user
    /\ userpass[n + 1] = Colon
    /\ SubSeq(userpass, n + 2, Len(userpass)) = sysCfg.pass

Request(from, url, typed) ==
    /\ i = 0 /\ by = "-"
    /\ request' = [from |-> from, url |-> url, typed |-> typed]
    /\ i' = 1
    /\ UNCHANGED <<sysCfg, remoteip, by, wasIn>>

Matching ==
    LET table == builtInUrls IN {k \in i..Len(table) : Matches(table[k], request.url)}
Here == Min(Matching)
AnswerBy(name) == by' = name /\ UNCHANGED i
GoOn == i' = Here + 1 /\ UNCHANGED by
Walking == i > 0 /\ by = "-"

\* What a browser may post to /config/httpd.cgi.
cgiHTTPD ==
    \E cfg \in [auth : BOOLEAN, user : Users, pass : Passwords] : sysCfg' = cfg

\* A faulty barrier that does not note who came through.
Noted_Not(from) == remoteip

\* os_memcpy(&remoteip, ...)
Noted(from) == from

authBasic ==
    IF request.typed # NoText /\ Accepted(Decoded(Encoded(request.typed)))
    THEN /\ remoteip' = Noted(request.from)
         /\ wasIn' = wasIn \union {request.from}
         /\ GoOn
    ELSE /\ IF sysCfg.auth /\ remoteip # request.from THEN AnswerBy("401") ELSE GoOn
         /\ UNCHANGED <<remoteip, wasIn>>

\* The end of the table.
NotFound ==
    /\ Walking /\ Matching = {}
    /\ AnswerBy("404")
    /\ UNCHANGED <<sysCfg, remoteip, request, wasIn>>

\* An entry that matches: its handler answers, or the walk goes on.
Call ==
    /\ Walking /\ Matching # {}
    /\ UNCHANGED request
    /\ LET cgi == builtInUrls[Here].cgi IN
       CASE cgi = "auth" -> authBasic /\ UNCHANGED sysCfg
         [] cgi \in {"template", "file"} ->
              /\ IF Stripped(request.url) \in Files THEN AnswerBy(cgi) ELSE GoOn
              /\ UNCHANGED <<sysCfg, remoteip, wasIn>>
         [] cgi = "httpd" -> AnswerBy(cgi) /\ cgiHTTPD /\ UNCHANGED <<remoteip, wasIn>>
         [] OTHER -> AnswerBy(cgi) /\ UNCHANGED <<sysCfg, remoteip, wasIn>>

\* The answer is sent.
Done ==
    /\ by # "-"
    /\ request' = NoRequest /\ i' = 0 /\ by' = "-"
    /\ UNCHANGED <<sysCfg, remoteip, wasIn>>

\* The settings are in the flash, the address is not.
Restart ==
    /\ i = 0
    /\ remoteip' = Nobody /\ wasIn' = {}
    /\ UNCHANGED <<sysCfg, request, i, by>>

Next ==
    \/ \E from \in Clients, url \in Urls, typed \in Typed \union {NoText} :
          Request(from, url, typed)
    \/ NotFound \/ Call \/ Done \/ Restart

Spec == Init /\ [][Next]_vars
-----------------------------------------------------------------------------
Guarded(url) == Len(url) > 1 /\ url[1] \in {"config", "control"}
Knows(typed) ==
    typed # NoText
      /\ typed.user \o <<Colon>> \o typed.pass = sysCfg.user \o <<Colon>> \o sysCfg.pass
OwnHandler(url) ==
    LET table == builtInUrls
        own == {k \in DOMAIN table : table[k].url = url /\ ~table[k].any}
    IN  IF own = {} THEN "file" ELSE table[Min(own)].cgi

\* "Authorization things (like authBasic) act as a 'barrier'" (user_main.c:75):
\* a handler that is about to be called for a protected address, was asked by
\* somebody who knows the password, or from an address from which somebody did,
\* or nobody is asked for one.  An address with more than one slash in front is
\* not protected: it may get a page as it is in the image, and no handler.
ProtectedAsMeant ==
    Walking /\ Matching # {} /\ Guarded(request.url) =>
        \/ builtInUrls[Here].cgi = "auth"
        \/ ~sysCfg.auth
        \/ Knows(request.typed)
        \/ request.from \in wasIn

\* Nobody is turned away who knows the password, nor the only one who has
\* logged in.
WelcomeWhenKnown ==
    by = "401" => /\ Guarded(request.url) /\ sysCfg.auth
                  /\ ~Knows(request.typed) /\ wasIn # {request.from}

\* The handler of an address is its own, whatever wildcards are in the table:
\* what is not in it, such as an address with slashes in front, gets a file at
\* the most.
OwnHandlerAnswers ==
    by \notin {"-", "401"} =>
        \/ by = OwnHandler(request.url)
        \/ /\ by = "404" /\ Stripped(request.url) \notin Files
           /\ OwnHandler(request.url) \in {"template", "file"}
=============================================================================
