------------------------------- MODULE MCHost -------------------------------
\* The sessions TLC checks HostClient with.
EXTENDS HostClient

TestScripts == {<<"motor-test", "PAN">>, <<"motor-test", "TILT">>,
                <<"dual-motor-test", "PAN">>}

AllScripts == TestScripts
    \cup {<<name, "TILT">> : name \in {"home-tilt", "tilt-dir-check", "jog-tilt",
                                       "endstop", "configure-drivers", "stop"}}
    \cup {<<name, a>> : name \in {"state", "driver"}, a \in Axes}
    \cup {<<name, "TILT">> : name \in {"enable", "disable", "velocity",
                                       "ping", "info"}}
=============================================================================
