---------------------------- MODULE MCSshConfig ----------------------------
(***************************************************************************)
(* Small files: up to three lines for the destination, the user, the port, *)
(* the paths and the forwards, under Host lines with wildcards and         *)
(* negations.                                                              *)
(***************************************************************************)
EXTENDS SshConfig

Characters == STRING

L(k, args) == [keyword |-> k, args |-> args]

HostLines == {
    L("host", <<<<"*">>>>), L("host", <<<<"?", "b">>>>), L("host", <<<<"!", "b">>>>),
    L("host", <<<<"*">>, <<"!", "*", "b">>>>), L("host", <<<<"B">>, <<"*", "a", "*">>>>)}

Destinations == HostLines \cup {
    L("hostname", <<<<"b">>>>), L("hostname", <<<<"a", ":", ":", "1">>>>),
    L("user", <<<<"u">>>>), L("user", <<<<"v">>, <<"w">>>>),
    L("port", <<<<"2", "2">>>>), L("port", <<<<"7", "0", "0", "0", "0">>>>), L("port", None)}

Others == {
    L("host", <<<<"*", "b">>>>), L("hostname", <<<<"b">>>>), L("compression", <<<<"n", "o">>>>),
    L("controlpath", <<<<"%r", "@", "%h", ":", "%p", "%n">>>>),
    L("controlmaster", <<<<"a", "u", "t", "o">>>>),
    L("controlpersist", <<<<"2", "m">>>>), L("controlpersist", <<<<"x">>>>),
    L("identityfile", <<<<"%h">>>>),
    L("localforward", <<<<"1">>, <<"h">>, <<"2">>>>),
    L("remoteforward", <<<<"h">>, <<"2">>>>)}

SmallFiles == SeqOf(Destinations \cup Others, 3)

SomeTargets == {
    <<"a", "b">>, <<"u", "@", "a", "b", ":", "1">>, <<"b">>,
    <<"[", ":", "b", "]", ":", "1">>, <<"[", "b">>, <<"@", "b">>}

NoOptions ==
    [user |-> None, port |-> None, identity |-> None, path |-> None, persist |-> None,
     forwards |-> None, master |-> FALSE, subsystem |-> FALSE]

SomeOptions == {
    NoOptions, [NoOptions EXCEPT !.persist = <<"y", "e", "s">>],
    [NoOptions EXCEPT !.subsystem = TRUE, !.persist = <<"1", "h">>],
    [NoOptions EXCEPT !.persist = <<"5">>, !.user = <<"o">>, !.port = <<"9">>,
        !.path = <<<<"%h">>>>, !.forwards = <<L("localforward", <<<<"1">>, <<"h">>, <<"2">>>>)>>]}

Someone == <<"m", "e">>
=============================================================================
