--------------------------- MODULE SettingsPages ----------------------------
(***************************************************************************)
(* The pages of the settings and their handlers (tpl... and cgi... in      *)
(* user/cgi.c, the forms in html/config): a page shows the configuration   *)
(* in a form, the browser sends the inputs back url-encoded, and the       *)
(* handler looks for each in the body with httpdFindArg.  A body is a      *)
(* sequence of characters in which the name of an input is one character;  *)
(* "q" is a double quote and "s" a space.                                  *)
(***************************************************************************)
EXTENDS SettingsForms, SequencesExt, FiniteSetsExt, Integers

CONSTANTS Inputs,          \* by page: a part of AllInputs
          InputOf,         \* by name: the input
          Typed,           \* the texts that may be typed
          Boards,          \* the boards that may be set
          MAX_POST,
          None

VARIABLES sysCfg,          \* by input: what the configuration says, as a text
          form,            \* in the browser: its page, its values, the inputs
                           \* that were edited, and those whose setting has
                           \* changed since the page was opened (stale)
          posting          \* the part of a body the server has not handled,
                           \* its form, the inputs sent, and whether it came
                           \* in one piece

vars == <<sysCfg, form, posting>>

Pages == DOMAIN Inputs
Explored == DOMAIN InputOf

Values(i) == IF i.kind = "flag" THEN {<<>>, <<"on">>}
             ELSE IF i.name = "board_id" THEN Boards
             ELSE IF i.kind = "number" THEN {<<"1">>, <<"2">>}
             ELSE Typed

\* A relay or sensor that the board lacks has no topic on the page.
Offered(i) == i.on = "all" \/ "board_id" \notin Explored
                \/ sysCfg["board_id"] \in BoardsWith[i.on]

TypeOK ==
    /\ DOMAIN sysCfg = Explored
    /\ \A n \in Explored : InputOf[n].kind # "flag" => sysCfg[n] \notin {None, <<>>}
    /\ form # None => form.page \in Pages
    /\ posting # None => posting.form.page \in Pages

Init ==
    /\ sysCfg = [n \in Explored |-> CASE InputOf[n].kind = "flag" -> <<"on">>
                                      [] n = "board_id" -> <<"0">>
                                      [] n # "board_id" /\ InputOf[n].kind = "number" -> <<"1">>
                                      [] OTHER -> <<"a">>]
    /\ form = None /\ posting = None
-----------------------------------------------------------------------------
\* The value of an input that shows v: value="..." ends with the first quote.
Displayed(i, v) ==
    IF i.kind = "flag" THEN (IF i.shown THEN v ELSE <<>>)
    ELSE SubSeq(v, 1, Min({k \in DOMAIN v : v[k] = "q"} \union {Len(v) + 1}) - 1)

\* A bound: one browser at a time, and others only open addresses (Get).
Open(page) ==
    LET shown == {i \in Range(Inputs[page]) : Offered(i)} IN
    /\ posting = None
    /\ form' = [page |-> page,
                values |-> [n \in {i.name : i \in shown} |-> Displayed(InputOf[n], sysCfg[n])],
                edited |-> {}, stale |-> {}]
    /\ UNCHANGED <<sysCfg, posting>>

\* di(): the inputs that are disabled.
Disabled(i) == i.gate \in DOMAIN form.values /\ form.values[i.gate] = <<>>

Edit ==
    /\ form # None
    /\ \E n \in DOMAIN form.values :
          /\ ~Disabled(InputOf[n])
          /\ \E v \in Values(InputOf[n]) : form' = [form EXCEPT !.values[n] = v,
                                                                      !.edited = @ \union {n}]
    /\ UNCHANGED <<sysCfg, posting>>

\* What the browser makes of a value.
Encoded(v) ==
    FlattenSeq([k \in DOMAIN v |-> CASE v[k] = "s" -> <<"+">>
                                     [] v[k] = "%" -> <<"%", "2", "5">>
                                     [] v[k] = "q" -> <<"%", "2", "2">>
                                     [] OTHER -> <<v[k]>>])

\* The inputs that are sent: a checkbox only when it is set.
Sent == SelectSeq(Inputs[form.page], LAMBDA i :
            /\ i.name \in DOMAIN form.values /\ ~Disabled(i)
            /\ i.kind = "flag" => form.values[i.name] # <<>>)
Body == FlattenSeq([k \in DOMAIN Sent |->
            <<Sent[k].name, "=">> \o Encoded(form.values[Sent[k].name]) \o <<"&">>])
        \o <<"save", "=", "Save">>

Submit ==
    /\ form # None
    /\ posting' = [rest |-> Body, form |-> form, sent |-> {i.name : i \in Range(Sent)},
                   whole |-> Len(Body) <= MAX_POST]
    /\ form' = None
    /\ UNCHANGED sysCfg
-----------------------------------------------------------------------------
\* A faulty search that misses the argument at the start of the body.
ArgsAt_Next(line, name) ==
    {p \in 2 .. Len(line) - 1 : line[p] = name /\ line[p + 1] = "=" /\ line[p - 1] = "&"}

\* Where an argument of this name starts.
ArgsAt(line, name) ==
    {p \in 1 .. Len(line) - 1 :
        line[p] = name /\ line[p + 1] = "=" /\ (p = 1 \/ line[p - 1] = "&")}

\* A faulty httpdUrlDecode that keeps the plus.
Plain_Plus(c) == c

Plain(c) == IF c = "+" THEN "s" ELSE c

\* httpdUrlDecode.
Decode(val) ==
    FoldLeft(LAMBDA d, c :
                CASE d.esced = 1 -> [d EXCEPT !.esced = 2, !.high = c]
                  [] d.esced = 2 ->
                        [d EXCEPT !.esced = 0,
                                  !.ret = Append(@, IF d.high = "2" /\ c = "5" THEN "%"
                                                    ELSE IF d.high = "2" /\ c = "2" THEN "q" ELSE "?")]
                  [] d.esced = 0 /\ c = "%" -> [d EXCEPT !.esced = 1]
                  [] OTHER -> [d EXCEPT !.ret = Append(@, Plain(c))],
             [esced |-> 0, high |-> "", ret |-> <<>>], val).ret

\* httpdFindArg: the value, or None.
FindArg(line, name) ==
    IF ArgsAt(line, name) = {} THEN None
    ELSE LET p == Min(ArgsAt(line, name)) + 2
             e == Min({k \in p .. Len(line) : line[k] = "&"} \union {Len(line) + 1})
         IN Decode(SubSeq(line, p, e - 1))

\* sprintf with the value as its format: pairs of % become one, and what any
\* other one makes is not known.
Formatted(v) ==
    IF v = <<"%", "%">> THEN <<"%">>
    ELSE IF "%" \in Range(v) THEN <<"?">> ELSE v

\* A faulty Stored, which takes a missing checkbox for an unchanged one.
Stored_Kept(i, arg) == IF arg \in {None, <<>>} THEN sysCfg[i.name] ELSE arg

\* A faulty Stored, which stores a text that is missing or empty.
Stored_Empty(i, arg) == IF arg = None THEN <<>> ELSE arg

\* What the handler stores for the input when it has found arg: a checkbox
\* that is not there is off, and an empty text changes nothing.
Stored(i, arg) ==
    IF i.kind = "flag" THEN IF arg \in {None, <<>>} THEN <<>> ELSE <<"on">>
    ELSE IF arg \in {None, <<>>} THEN sysCfg[i.name]
    ELSE IF i.kind = "format" THEN Formatted(arg) ELSE arg

\* The handler of a page, up to CFG_Save.
Handled(page, line) ==
    [n \in Explored |-> IF InputOf[n] \in Range(Inputs[page])
                        THEN Stored(InputOf[n], FindArg(line, n)) ELSE sysCfg[n]]

\* The settings that change are stale in a form that is open.
Aged(f) == IF f = None THEN f
           ELSE [f EXCEPT !.stale = @ \union {n \in Explored : sysCfg'[n] # sysCfg[n]}]

\* A body that is too long for the buffer is handled in parts.
Handle ==
    /\ posting # None
    /\ LET n == Min({MAX_POST, Len(posting.rest)}) IN
       /\ sysCfg' = Handled(posting.form.page, SubSeq(posting.rest, 1, n))
       /\ posting' = IF n = Len(posting.rest) THEN None
                     ELSE [posting EXCEPT !.rest = SubSeq(@, n + 1, Len(@)), !.form = Aged(@)]
    /\ UNCHANGED form

\* The address of the handler is opened without a form: no buffer, no values.
Get(page) ==
    /\ sysCfg' = Handled(page, <<>>)
    /\ form' = Aged(form)
    /\ posting' = IF posting = None THEN None ELSE [posting EXCEPT !.form = Aged(@)]

Next ==
    \/ \E p \in Pages : Open(p) \/ Get(p)
    \/ Edit \/ Submit \/ Handle

Spec == Init /\ [][Next]_vars
-----------------------------------------------------------------------------
\* What is lost on the way: a quote ends what a page shows of a text, the
\* boxes of the sensors are never shown as set, and a box that is disabled is
\* not sent.
Lost(n) ==
    \/ InputOf[n].kind = "flag" /\ (n \notin posting.sent) /\ (~InputOf[n].shown \/ InputOf[n].gate # "none")
    \/ InputOf[n].kind # "flag" /\ {"q", "%"} \intersect Range(sysCfg[n]) # {}

\* A save changes what was edited in the form, and what somebody else had
\* changed since it was opened; nothing else, as long as the body comes in one
\* piece.
SaveKeepsTheRest ==
    [][ Handle /\ posting.whole =>
          \A n \in Explored : sysCfg'[n] # sysCfg[n] =>
              n \in posting.form.edited \union posting.form.stale \/ Lost(n) ]_vars

\* A save stores what the form shows, character by character and box by box,
\* as long as the body comes in one piece: except that texts are not made
\* empty, that a percent sign in a setting of MQTT is taken for a format, and
\* what is disabled is not stored.
SaveStoresTheForm ==
    [][ Handle /\ posting.whole =>
          \A n \in DOMAIN posting.form.values :
              LET i == InputOf[n]
                  v == posting.form.values[n]
              IN  (n \in posting.sent \/ (i.kind = "flag" /\ i.gate = "none")) =>
                      \/ sysCfg'[n] = v
                      \/ i.kind # "flag" /\ v = <<>> /\ sysCfg'[n] = sysCfg[n]
                      \/ i.kind = "format" /\ "%" \in Range(v) ]_vars
=============================================================================
