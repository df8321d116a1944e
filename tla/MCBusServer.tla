---------------------------- MODULE MCBusServer ----------------------------
(* Constants for model checking BusServer. *)
EXTENDS BusServer, TLC

\* Names as busserver.c uses them: "bt" is a prefix of "btavk".
PrefixNames == {"", "bt", "btavk", "dlna"}
PrefixPairs == {<<n, n>> : n \in PrefixNames} \cup ({""} \X PrefixNames)
                 \cup {<<"bt", "btavk">>}

\* Names as cmbusclient.c uses them: none is a prefix of another.
DemoNames == {"", "demo1", "demo2"}
DemoPairs == {<<n, n>> : n \in DemoNames} \cup ({""} \X DemoNames)

Msg(h, t) == [head |-> h, topic |-> t]

OneBadKind == {Msg("publish", "other"), Msg("other", "other")}

\* One message of each kind the parser and the handler tell apart.
AnyTraffic == {Msg("request", "/bus/subscribe"), Msg("re", "/bus/subscribe"),
               Msg("publish", "other"), Msg("pu", "other"),
               Msg("keepalive", "other"), Msg("other", "other")}

\* Connections are interchangeable addresses; used with invariants only.
ConnSymmetry == Permutations(Conns)
=============================================================================
