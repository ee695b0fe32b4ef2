-------------------------------- MODULE Wifi --------------------------------
(***************************************************************************)
(* The station side of the Wi-Fi set-up: WIFI_Connect and the timer that   *)
(* watches the link (user/wifi.c), and the pages that scan for networks,   *)
(* change the mode, and join a network (user/cgiwifi.c).  A request to     *)
(* join is put into effect by one timer, and 15 seconds later another one  *)
(* looks whether it worked and goes into station-only mode if so, for      *)
(* which the board restarts.  The reset button (user/io.c) leads back to   *)
(* the access point.  cgiWiFiConnStatus changes nothing: connTryStatus     *)
(* never has the values for which it would.                                *)
(***************************************************************************)
EXTENDS Naturals

CONSTANTS Networks, NULL,
          LongPress        \* ticks of half a second, 6 in the code

VARIABLES opmode,          \* "sta", "ap" or "both", which the SDK keeps
          saved,           \* sta_ssid in the flash
          ssid,            \* sysCfg.sta_ssid
          stconf,          \* the network of the last request to join
          station,         \* the network the SDK is to join
          link,            \* of the station: the network that it has an
                           \* address in, or how far it is
          lastWifiStatus,
          WiFiLinker, reassTimer, resetTimer,   \* is the timer armed?
          connTryStatus,
          scanInProgress,
          there,           \* the networks in reach, whose password was given
          proved,          \* history: the network the board was in when it
                           \* last went into station-only mode by itself
          doubt,           \* history: it had another request to see to then,
                           \* or had not saved this one
          pressed, resetCnt,
          held,            \* history: polls that have seen the last press
          forced           \* history: held at the last restart by the button

button == <<pressed, resetCnt, held, forced>>
vars == <<opmode, saved, ssid, stconf, station, link, lastWifiStatus, WiFiLinker,
          reassTimer, resetTimer, connTryStatus, scanInProgress, there, proved, doubt, button>>

Links == {"idle", "connecting", "failed"}

\* wifi_station_get_connect_status
HasIP == link \in Networks
Status == IF HasIP THEN "ip" ELSE link

TypeOK ==
    /\ opmode \in {"sta", "ap", "both"}
    /\ saved \in Networks /\ ssid \in Networks /\ station \in Networks
    /\ stconf \in Networks \union {NULL} /\ proved \in Networks \union {NULL}
    /\ link \in Links \union Networks
    /\ lastWifiStatus \in Links \union {"ip"}
    /\ {WiFiLinker, reassTimer, resetTimer, scanInProgress, doubt} \subseteq BOOLEAN
    /\ connTryStatus \in {"idle", "fail"}
    /\ there \subseteq Networks
    /\ pressed \in BOOLEAN
    /\ {resetCnt, held, forced} \subseteq 0..LongPress

\* wifi_station_connect
Connecting(mode) == IF mode = "ap" THEN "idle" ELSE "connecting"

\* WIFI_Connect, with what was saved, after a start in this mode.
Boot(mode) ==
    /\ opmode' = mode
    /\ ssid' = saved /\ station' = saved /\ stconf' = NULL
    /\ UNCHANGED saved
    /\ link' = Connecting(mode)
    /\ lastWifiStatus' = "idle"
    /\ WiFiLinker' = TRUE /\ reassTimer' = FALSE /\ resetTimer' = FALSE
    /\ connTryStatus' = "idle"
    /\ scanInProgress' = FALSE
    /\ resetCnt' = 0
    /\ held' = 0

Init ==
    /\ opmode \in {"sta", "ap", "both"}
    /\ saved \in Networks /\ ssid = saved /\ station = saved /\ stconf = NULL
    /\ link = Connecting(opmode)
    /\ lastWifiStatus = "idle"
    /\ WiFiLinker = TRUE /\ reassTimer = FALSE /\ resetTimer = FALSE
    /\ connTryStatus = "idle"
    /\ scanInProgress = FALSE
    /\ there \in SUBSET Networks
    /\ proved = NULL /\ doubt = FALSE
    /\ pressed = FALSE /\ resetCnt = 0 /\ held = 0 /\ forced = 0
-----------------------------------------------------------------------------
\* The board is switched off and on, or restarts for another reason.
PowerCycle ==
    /\ Boot(opmode)
    /\ UNCHANGED <<there, proved, doubt, pressed, forced>>

\* The station joins the network or does not find it.
Join ==
    /\ link = "connecting"
    /\ link' = IF station \in there THEN station ELSE "failed"
    /\ UNCHANGED <<opmode, saved, ssid, stconf, station, lastWifiStatus, WiFiLinker, reassTimer,
                   resetTimer, connTryStatus, scanInProgress, there, proved, doubt, button>>

\* Networks come and go; a station whose network is gone tries again.
Reach ==
    /\ there' \in SUBSET Networks
    /\ link' = IF HasIP /\ link \notin there' THEN "connecting" ELSE link
    /\ UNCHANGED <<opmode, saved, ssid, stconf, station, lastWifiStatus, WiFiLinker, reassTimer,
                   resetTimer, connTryStatus, scanInProgress, proved, doubt, button>>

\* A faulty Watched, which waits for another status first.
Watched_Change == Status # lastWifiStatus

\* wifi_check_ip arms its timer again, whatever it finds.
Watched == TRUE

\* wifi_check_ip: a station that failed tries again, and wifiCb learns of
\* every change that two calls in a row see.
wifi_check_ip ==
    /\ WiFiLinker
    /\ WiFiLinker' = Watched
    /\ link' = IF link = "failed" THEN "connecting" ELSE link
    /\ lastWifiStatus' = Status
    /\ UNCHANGED <<opmode, saved, ssid, stconf, station, reassTimer, resetTimer, connTryStatus,
                   scanInProgress, there, proved, doubt, button>>

\* wifiStartScan; the SDK does not scan in access-point mode, and calls
\* nothing back then.
cgiWiFiScan ==
    /\ ~scanInProgress
    /\ scanInProgress' = TRUE
    /\ UNCHANGED <<opmode, saved, ssid, stconf, station, link, lastWifiStatus, WiFiLinker,
                   reassTimer, resetTimer, connTryStatus, there, proved, doubt, button>>

\* A faulty wifiScanDoneCb, which returns early from a scan that found nothing.
wifiScanDoneCb_OnlyOk ==
    /\ scanInProgress
    /\ opmode # "ap"
    /\ scanInProgress' = (there = {})
    /\ UNCHANGED <<opmode, saved, ssid, stconf, station, link, lastWifiStatus, WiFiLinker,
                   reassTimer, resetTimer, connTryStatus, there, proved, doubt, button>>

\* wifiScanDoneCb, with a list of networks or an error.
wifiScanDoneCb ==
    /\ scanInProgress
    /\ opmode # "ap"
    /\ scanInProgress' = FALSE
    /\ UNCHANGED <<opmode, saved, ssid, stconf, station, link, lastWifiStatus, WiFiLinker,
                   reassTimer, resetTimer, connTryStatus, there, proved, doubt, button>>

\* cgiWiFiConnect: the network is saved only along with an address or the way
\* to get one.  Without an essid the name is what the stack held before.
cgiWiFiConnect ==
    /\ ssid' \in Networks
    /\ stconf' = ssid'
    /\ saved' \in {saved, ssid'}
    /\ reassTimer' = TRUE
    /\ proved' = NULL /\ doubt' = FALSE
    /\ UNCHANGED <<opmode, station, link, lastWifiStatus, WiFiLinker, resetTimer,
                   connTryStatus, scanInProgress, there, button>>

\* A faulty reassTimerCb, which does not leave the old network.
reassTimerCb_Stays ==
    /\ reassTimer
    /\ reassTimer' = FALSE
    /\ station' = stconf
    /\ link' = IF HasIP THEN link ELSE Connecting(opmode)
    /\ resetTimer' = (resetTimer \/ opmode # "sta")
    /\ UNCHANGED <<opmode, saved, ssid, stconf, lastWifiStatus, WiFiLinker, connTryStatus,
                   scanInProgress, there, proved, doubt, button>>

\* reassTimerCb leaves the network and joins the other one.
reassTimerCb ==
    /\ reassTimer
    /\ reassTimer' = FALSE
    /\ station' = stconf
    /\ link' = Connecting(opmode)
    /\ resetTimer' = (resetTimer \/ opmode # "sta")
    /\ UNCHANGED <<opmode, saved, ssid, stconf, lastWifiStatus, WiFiLinker, connTryStatus,
                   scanInProgress, there, proved, doubt, button>>

\* resetTimerCb, when the station has an address.
StationOnly ==
    /\ resetTimer /\ HasIP
    /\ Boot("sta")
    /\ proved' = link
    /\ doubt' = (reassTimer \/ ssid # saved)
    /\ UNCHANGED <<there, pressed, forced>>

\* resetTimerCb, when it has none.
GiveUp ==
    /\ resetTimer /\ ~HasIP
    /\ resetTimer' = FALSE
    /\ connTryStatus' = "fail"
    /\ UNCHANGED <<opmode, saved, ssid, stconf, station, link, lastWifiStatus, WiFiLinker,
                   reassTimer, scanInProgress, there, proved, doubt, button>>

\* cgiWiFiSetMode restarts at once.
cgiWiFiSetMode ==
    /\ \E mode \in {"sta", "ap", "both"} : Boot(mode)
    /\ proved' = NULL /\ doubt' = FALSE
    /\ UNCHANGED <<there, pressed, forced>>

unpressed == <<opmode, saved, ssid, stconf, station, link, lastWifiStatus, WiFiLinker,
               reassTimer, resetTimer, connTryStatus, scanInProgress, there, proved, doubt>>

\* Somebody presses the button or lets it go, at any time between two polls.
Press ==
    /\ pressed' = ~pressed
    /\ held' = IF pressed THEN held ELSE 0
    /\ UNCHANGED <<resetCnt, forced, unpressed>>

\* resetBtnTimerCb, which polls the button every 500 ms, when it is down; the
\* counts stop at LongPress.
ButtonDown ==
    /\ pressed
    /\ resetCnt' = IF resetCnt < LongPress THEN resetCnt + 1 ELSE resetCnt
    /\ held' = IF held < LongPress THEN held + 1 ELSE held
    /\ UNCHANGED <<pressed, forced, unpressed>>

\* resetBtnTimerCb when the button is up.
ButtonUp ==
    /\ ~pressed
    /\ IF resetCnt >= LongPress
       THEN /\ Boot("both")
            /\ forced' = held
            /\ proved' = NULL /\ doubt' = FALSE
            /\ UNCHANGED there
       ELSE /\ resetCnt' = 0
            /\ held' = 0
            /\ UNCHANGED <<forced, unpressed>>
    /\ UNCHANGED pressed

Next ==
    \/ PowerCycle \/ Join \/ Reach \/ wifi_check_ip \/ cgiWiFiScan \/ wifiScanDoneCb
    \/ cgiWiFiConnect \/ reassTimerCb \/ StationOnly \/ GiveUp \/ cgiWiFiSetMode
    \/ Press \/ ButtonDown \/ ButtonUp

\* The SDK ends attempts and scans, and its timers run out.
Fairness == WF_vars(Join) /\ WF_vars(wifi_check_ip) /\ WF_vars(wifiScanDoneCb)

Spec == Init /\ [][Next]_vars /\ Fairness
-----------------------------------------------------------------------------
\* When the board gives up its own access point it has been in the network
\* that it will join after the restart, unless another request was waiting
\* for its timer then, or the network was never saved.
StationOnlyWorks == proved # NULL => proved = saved \/ doubt

\* A station whose network is in reach for good gets into it again and again,
\* whatever was lost or asked for before.
KeepsTrying ==
    <>[](station \in there /\ opmode # "ap") => []<>HasIP

\* wifiCb, which connects the MQTT client, learns of an address.
AddressReported == HasIP ~> lastWifiStatus = "ip" \/ ~HasIP

\* A scan ends, and the page can start the next one, but in access-point mode,
\* where only a restart ends it.
ScanEnds == scanInProgress ~> ~scanInProgress \/ opmode = "ap"

\* "3 sec pressed" (user/io.c:76): the button restarts the board only after a
\* press that all of the polls have seen; short ones do not add up.
ShortPressesIgnored == forced \in {0, LongPress}
=============================================================================
