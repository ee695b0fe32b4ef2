----------------------------- MODULE MCSettings -----------------------------
(***************************************************************************)
(* The settings on small instances: how they are kept in flash             *)
(* (ConfigStore, with three configurations), how the pages change them     *)
(* (SettingsPages, with some inputs of three pages), and those that the    *)
(* SDK keeps, of the Wi-Fi (Wifi, with two networks).  What a setting is   *)
(* does not matter to the flash, nor the flash to the pages, so that each  *)
(* is explored on its own: part says which.                                *)
(***************************************************************************)
EXTENDS ConfigStore, SettingsForms

CONSTANTS old, new, None, NULL,
          Networks, LongPress

VARIABLES part,
          settings, form, posting,
          opmode, saved, ssid, stconf, station, link, lastWifiStatus, WiFiLinker,
          reassTimer, resetTimer, connTryStatus, scanInProgress, there, proved, doubt,
          pressed, resetCnt, held, forced

\* A gate and three inputs that it gates, one of them only for some boards, a
\* box that is never shown as set, the number of the board and a text.  The
\* longest body has 30 characters.
MCInputs == InputsOf({"mqtt", "relay", "config", "sensor"},
                     {"mqtt-enable", "mqtt-host", "mqtt-use-ssl", "mqtt-relay-subs-topic",
                      "sensor-temp-enable", "relay1name", "board_id"})
MCInputOf == ByName(MCInputs)

P == INSTANCE SettingsPages WITH
        sysCfg <- settings, Inputs <- MCInputs, InputOf <- MCInputOf,
        Typed <- {<<>>, <<"a">>, <<"%", "s", "q">>},
        Boards <- {<<"0">>, <<"9">>},
        MAX_POST <- 20

\* None is no text.
ASSUME TextAssumption == None \notin {<<"a">>, <<"0">>, <<"1">>, <<"%">>, <<"?">>}

W == INSTANCE Wifi

\* A network is no state of the link, and there is a network that is none.
ASSUME NetworksAssumption ==
    /\ \A n \in Networks : n \notin W!Links /\ n # NULL
    /\ LongPress \in Nat

flashVars == <<slot, flag, saveFlag, sysCfg, pc, target, nested, raced>>
pageVars == <<settings, form, posting>>
wifiVars == <<opmode, saved, ssid, stconf, station, link, lastWifiStatus, WiFiLinker,
              reassTimer, resetTimer, connTryStatus, scanInProgress, there, proved, doubt,
              pressed, resetCnt, held, forced>>

\* A part that is not looked at; the flash then stays as one first state has it.
NoFlash == Init /\ slot = [s \in Slots |-> Blank] /\ flag = ErasedFlag /\ saveFlag = 0
NoPages == settings = None /\ form = None /\ posting = None
NoWifi ==
    /\ opmode = None /\ saved = None /\ ssid = None /\ stconf = None
    /\ station = None /\ link = None /\ lastWifiStatus = None /\ WiFiLinker = None
    /\ reassTimer = None /\ resetTimer = None /\ connTryStatus = None
    /\ scanInProgress = None /\ there = None /\ proved = None /\ doubt = None
    /\ pressed = None /\ resetCnt = None /\ held = None /\ forced = None

MCInit ==
    \/ part = "flash" /\ Init /\ NoPages /\ NoWifi
    \/ part = "pages" /\ NoFlash /\ P!Init /\ NoWifi
    \/ part = "wifi" /\ NoFlash /\ NoPages /\ W!Init

Flash == part = "flash" /\ Next /\ UNCHANGED <<part, pageVars, wifiVars>>
Posting == part = "pages" /\ P!Next /\ UNCHANGED <<part, flashVars, wifiVars>>
Radio(A) == part = "wifi" /\ A /\ UNCHANGED <<part, flashVars, pageVars>>

MCNext == Flash \/ Posting \/ Radio(W!Next)

\* The fairness of Wifi.
MCSpec ==
    /\ MCInit /\ [][MCNext]_<<part, flashVars, pageVars, wifiVars>>
    /\ WF_wifiVars(Radio(W!Join)) /\ WF_wifiVars(Radio(W!wifi_check_ip))
    /\ WF_wifiVars(Radio(W!wifiScanDoneCb))
-----------------------------------------------------------------------------
\* Variables of the part that is explored have their types.
PartsTypeOK ==
    /\ TypeOK
    /\ part = "pages" => P!TypeOK
    /\ part = "wifi" => W!TypeOK

\* The cgi... handlers: saving a page stores what its form shows, and leaves
\* alone what was not edited.
FormsSaved == P!SaveStoresTheForm /\ P!SaveKeepsTheRest

\* Wifi: the board gives up its access point only for a network it was in.
StaysInReach == part = "wifi" => W!StationOnlyWorks

\* Wifi: a station whose network is in reach gets into it again and again,
\* wifiCb learns of its address, and a scan ends, but in access-point mode.
StationLives ==
    /\ <>[](part = "wifi" /\ station \in there /\ opmode # "ap") => []<>(part = "wifi" /\ W!HasIP)
    /\ (part = "wifi" /\ W!HasIP) ~> (part = "wifi" /\ (lastWifiStatus = "ip" \/ ~W!HasIP))
    /\ (part = "wifi" /\ scanInProgress) ~> (part = "wifi" /\ (~scanInProgress \/ opmode = "ap"))
=============================================================================
