--------------------------- MODULE SettingsForms ----------------------------
(***************************************************************************)
(* The inputs of the pages of the settings: the forms in html/config with  *)
(* what tpl... in user/cgi.c fills in, and how the handlers cgi... take    *)
(* each input.                                                             *)
(***************************************************************************)
EXTENDS Sequences

\* An input: a checkbox, a number, a text, or a text that the handler copies
\* with sprintf.  Is a checkbox set as the configuration says?  Which box
\* enables the input?  Which boards have it?
I(name, kind) == [name |-> name, kind |-> kind, shown |-> TRUE, gate |-> "none", on |-> "all"]
G(gate, name, kind) == [I(name, kind) EXCEPT !.gate = gate]
Hidden(name) == [I(name, "flag") EXCEPT !.shown = FALSE]
Topic(on, gate, name) == [G(gate, name, "format") EXCEPT !.on = on]

MqttInputs ==
    << I("mqtt-enable", "flag"),
       G("mqtt-enable", "mqtt-host", "format"), G("mqtt-enable", "mqtt-port", "number"),
       G("mqtt-enable", "mqtt-keepalive", "number"),
       G("mqtt-enable", "mqtt-deep-sleep-time", "number"),
       G("mqtt-enable", "mqtt-devid", "format"), G("mqtt-enable", "mqtt-user", "format"),
       G("mqtt-enable", "mqtt-pass", "format"), G("mqtt-enable", "mqtt-use-ssl", "flag"),
       G("mqtt-enable", "mqtt-send-config", "flag"),
       Topic("temphum", "mqtt-enable", "mqtt-temphum-temp-pub-topic"),
       Topic("temphum", "mqtt-enable", "mqtt-temphum-humi-pub-topic"),
       Topic("temp", "mqtt-enable", "mqtt-temp-pub-topic"),
       Topic("relays", "mqtt-enable", "mqtt-relay-subs-topic"),
       Topic("leds", "none", "mqtt-led-subs-topic") >>

HttpdInputs == << I("httpd-port", "number"), I("httpd-auth", "flag"),
                  G("httpd-auth", "httpd-user", "text"), G("httpd-auth", "httpd-pass", "text") >>

NtpInputs == << I("ntp-enable", "flag"), G("ntp-enable", "ntp-tz", "number") >>

RelayInputs == << I("relay-latching-enable", "flag"), I("relay1name", "text"),
                  I("relay2name", "text"), I("relay3name", "text") >>

SensorInputs ==
    << Hidden("sensor-temp-enable"), Hidden("sensor-temp-humi-enable"),
       I("thermostat1-input", "number"), I("thermostat1hysteresishigh", "number"),
       I("thermostat1hysteresislow", "number") >>

BoardInputs == << I("board_id", "number") >>

BroadcastInputs ==
    << I("broadcastd-enable", "flag"),
       G("broadcastd-enable", "broadcastd-host", "text"),
       G("broadcastd-enable", "broadcastd-port", "number"),
       G("broadcastd-enable", "broadcastd-URL", "text"),
       G("broadcastd-enable", "broadcastd-thingspeak-channel", "number"),
       G("broadcastd-enable", "broadcastd-ro-apikey", "text") >>

AllInputs ==
    [mqtt |-> MqttInputs, httpd |-> HttpdInputs, ntp |-> NtpInputs, relay |-> RelayInputs,
     sensor |-> SensorInputs, config |-> BoardInputs, broadcastd |-> BroadcastInputs]

\* The boards by number, as tplMQTT asks for them.
BoardsWith == [temphum |-> {<<"0">>, <<"2">>, <<"10">>}, temp |-> {<<"0">>, <<"1">>},
               relays |-> {<<"0">>, <<"6">>, <<"7">>, <<"8">>}, leds |-> {<<"9">>}]

\* Some inputs of some pages, and the inputs by name.
InputsOf(pages, names) ==
    [page \in pages |-> SelectSeq(AllInputs[page], LAMBDA i : i.name \in names)]
ByName(inputs) ==
    LET all == UNION {{inputs[p][k] : k \in DOMAIN inputs[p]} : p \in DOMAIN inputs}
    IN [n \in {i.name : i \in all} |-> CHOOSE i \in all : i.name = n]
=============================================================================
