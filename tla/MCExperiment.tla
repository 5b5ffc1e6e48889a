---------------------------- MODULE MCExperiment ----------------------------
EXTENDS Experiment

MCCalendar == <<0, 30, 61, 91, 122>>       \* from SIM_EPOCH, 2026-09-01

At(day, hour) == (day - 1) * Day + hour * Hour

Profiles(methods, days, origins) == [method : methods, day : days, origin : origins]

\* The first payment takes every method and situation, the second only follows it.
MCBatch ==
    << Profiles(DOMAIN Kinds, {15, 28}, {At(1, 0), At(15, 10), At(35, 23)}),
       Profiles({"MANDATE"}, {28}, {At(2, 21)}) >>

MCEvents ==
    [method : {"card", "upi_collect", "cheque"},
     code : {Text(<<"bad", "request">>, "_")},
     reason : {Missing} \cup
              {Text(w, "_") : w \in {<<"mandate", "cancelled">>, <<"card", "expired">>,
                                     <<"insufficient", "funds">>, <<"issuer", "timeout">>,
                                     <<"payment", "unsuccessful">>}},
     source : {"customer", "bank", "network", "aggregator"},
     step : {"authentication", "unheard_of"},
     description : {Missing} \cup
                   {Text(w, " ") : w \in {<<"mandate", "revoked,", "please", "try", "again">>,
                                          <<"card", "expired,", "bank", "did", "not", "respond">>,
                                          <<"gateway", "timeout,", "insufficient", "balance">>,
                                          <<"payment", "unsuccessful">>}}]

MCMoments == {h * Hour : h \in 0..(61 * 24 - 1)}
MCHours == {h * Hour : h \in {0, QuietEnd, 12, QuietStart}}
=============================================================================
