----------------------------- MODULE LedString ------------------------------
(***************************************************************************)
(* The string of WS2812B LEDs (driver/spi_ws2812b.c): a timer shifts a     *)
(* pattern along the string, the settings page chooses the pattern         *)
(* (cgiws2812b in user/cgi.c), and an MQTT message lights a number of LEDs *)
(* in one colour and stops the timer.  What the configuration store does   *)
(* is in module ConfigStore; here a save is one step.                      *)
(***************************************************************************)
EXTENDS Integers, Sequences

CONSTANTS patterns,      \* the colours of each pattern
          LedMax,        \* LEDs there are
          Lengths,       \* string lengths asked for
          Shades,        \* 256: how many values each part of a published number has
          Published,     \* the colours of published messages
          None

VARIABLES pattern, cur, ms_delay, brightness, stringlen,   \* pcfg
          armed,         \* PatternTimer
          sysCfg,        \* the saved settings
          leds,          \* what each LED shows
          published,     \* history: the message shown since the last frame or restart
          delayed,       \* history: has a delay been set since then?
          framed         \* history: has a frame been shown, and nothing been set since?

vars == <<pattern, cur, ms_delay, brightness, stringlen, armed, sysCfg, leds, published, delayed, framed>>

NUM_PATTERNS == Len(patterns)
Leds == 1..LedMax
Dark == [colour |-> "dark", level |-> 0]
Default == 2             \* 18: the length of a string whose length is not known

TypeOK ==
    /\ pattern \in 1..NUM_PATTERNS
    /\ cur \in (0 .. Len(patterns[pattern]) - 1) \union {1}
    /\ ms_delay \in 0..1 /\ brightness \in 1..8 /\ stringlen \in Leds
    /\ {armed, delayed, framed} \subseteq BOOLEAN
    /\ DOMAIN leds = Leds

\* What ws2812b_init makes of the saved settings c.
Restores(c) == c.pattern \in 1 .. NUM_PATTERNS - 1

\* A faulty Saved, which comes before the pattern is set.
Saved_Before == [pattern |-> pattern, ms_delay |-> ms_delay', brightness |-> brightness', stringlen |-> stringlen']

\* ws2812b_save_pcfg
Saved == [pattern |-> pattern', ms_delay |-> ms_delay', brightness |-> brightness', stringlen |-> stringlen']

\* A string of no LEDs is given the default length; so is a pattern that is
\* not restored, with full brightness and a delay.
Length(n) == IF n = 0 THEN Default ELSE n
ws2812b_init(c) ==
    IF Restores(c) THEN [c EXCEPT !.stringlen = Length(@)]
    ELSE [pattern |-> 1, ms_delay |-> 1, brightness |-> 8, stringlen |-> Default]

\* CFG_Load gives the defaults the first time.
Init ==
    /\ sysCfg = [pattern |-> 0, ms_delay |-> 1, brightness |-> 8, stringlen |-> Default]
    /\ LET pcfg == ws2812b_init(sysCfg) IN
       /\ pattern = pcfg.pattern /\ ms_delay = pcfg.ms_delay
       /\ brightness = pcfg.brightness /\ stringlen = pcfg.stringlen
    /\ cur = 1 /\ armed = (ms_delay > 0)
    /\ leds = [j \in Leds |-> Dark]
    /\ published = None /\ delayed = FALSE /\ framed = FALSE
-----------------------------------------------------------------------------
\* A faulty Element, which starts every frame with the first colour.
Element_First(j) == j - 1

\* The element of the pattern that the LED j shows.
Element(j) == cur + j - 1

\* A faulty NextElement, which goes one too far.
NextElement_OneMore == IF cur + 1 > Len(patterns[pattern]) THEN 0 ELSE cur + 1

NextElement == IF cur + 1 >= Len(patterns[pattern]) THEN 0 ELSE cur + 1

\* PatternTimerHandler
PatternTimerHandler ==
    /\ armed
    /\ leds' = [j \in Leds |->
                  IF j <= stringlen
                  THEN [colour |-> patterns[pattern][(Element(j) % Len(patterns[pattern])) + 1],
                        level |-> brightness]
                  ELSE leds[j]]
    /\ cur' = NextElement
    /\ published' = None /\ delayed' = FALSE
    /\ framed' = TRUE
    /\ UNCHANGED <<pattern, ms_delay, brightness, stringlen, armed, sysCfg>>

\* cgiws2812b: each field may be missing; the page offers the patterns.  The
\* timer is set anew by a delay and by a pattern.
Settings ==
    /\ \E len \in Lengths \union {stringlen}, delay \in {None, 0, 1}, level \in {None, 7},
         p \in {None} \union 1..NUM_PATTERNS :
          /\ stringlen' = Length(len)
          /\ ms_delay' = IF delay = None THEN ms_delay ELSE delay
          /\ brightness' = IF level = None THEN brightness ELSE level
          /\ pattern' = IF p = None THEN pattern ELSE p
          /\ cur' = IF p = None THEN cur ELSE 0
          /\ armed' = IF delay = None /\ p = None THEN armed ELSE ms_delay' > 0
          /\ delayed' = (delayed \/ delay # None)
    /\ sysCfg' = Saved
    /\ framed' = FALSE
    /\ UNCHANGED <<leds, published>>

\* strtol of NNRRGGBB: a number too large for a long gives the largest one,
\* half of the numbers of LEDs less one, and white.
Parsed(n, c) == IF n < Shades \div 2 THEN [n |-> n, colour |-> c]
                ELSE [n |-> (Shades \div 2) - 1, colour |-> "white"]

\* A faulty DelayOf, which lets the timer run on.
DelayOf_Kept == ms_delay

\* The delay after a publish: the timer is stopped.
DelayOf == 0

\* ws2812b_mqtt_pub_cb, called by mqttDataCb.
Publish ==
    /\ \E n \in 0 .. Shades - 1, c \in Published :
          LET lit == Parsed(n, c) IN
          /\ leds' = [j \in Leds |-> IF j <= lit.n THEN [colour |-> lit.colour, level |-> 8] ELSE leds[j]]
          /\ published' = [n |-> n, colour |-> c]
    /\ ms_delay' = DelayOf /\ armed' = (DelayOf > 0)
    /\ delayed' = FALSE /\ framed' = FALSE
    /\ UNCHANGED <<pattern, cur, brightness, stringlen, sysCfg>>

\* The board starts again: the LEDs keep what they show.
Restart ==
    /\ LET pcfg == ws2812b_init(sysCfg) IN
       /\ pattern' = pcfg.pattern /\ ms_delay' = pcfg.ms_delay
       /\ brightness' = pcfg.brightness /\ stringlen' = pcfg.stringlen
    /\ cur' = 1 /\ armed' = (ms_delay' > 0)
    /\ published' = None /\ delayed' = FALSE /\ framed' = FALSE
    /\ UNCHANGED <<sysCfg, leds>>

Next == PatternTimerHandler \/ Settings \/ Publish \/ Restart

Spec == Init /\ [][Next]_vars
-----------------------------------------------------------------------------
\* From frame to frame the pattern moves by one LED, around its end too, as
\* long as nothing is set in between.
PatternMoves ==
    [][ framed /\ framed' =>
          \A j \in 1 .. stringlen - 1 : leds'[j] = leds[j + 1] ]_vars

\* What was published stays on the LEDs until a page sets a delay: pattern,
\* brightness and length may be set meanwhile.  Up to half of the numbers a
\* byte has, as many LEDs are lit as the message says, in its colour.
PublishedStays ==
    /\ published # None /\ ~delayed => ~armed
    /\ published # None /\ published.n < Shades \div 2 =>
          \A j \in Leds : j <= published.n => leds[j].colour = published.colour

\* The pattern becomes another one only together with the saved one, or when
\* a restart returns to it: except from the last pattern of the page, which a
\* restart does not restore.
PatternSurvives ==
    [][pattern' # pattern => pattern' = sysCfg'.pattern \/ pattern = NUM_PATTERNS]_vars
=============================================================================
