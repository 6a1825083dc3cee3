------------------------ MODULE AdvertisingContract ------------------------
(***************************************************************************)
(* What the advertising lifecycle promises a scanner, without threads,     *)
(* work items, generations or locks: a debt that every change, reader at   *)
(* the antenna and departing client adds to, and that is settled only by a *)
(* payload on air which shows all that was reported.  The debt begins with *)
(* power-on.  An advertising call that fails changes nothing here.         *)
(***************************************************************************)

CONSTANT Source    \* the handlers that change what the payload shows

VARIABLES
    air,       \* what a scanner receives: "silent", or data "fresh" or "stale"
    client,    \* the radio has a connection
    untold,    \* handlers that have changed the data and not yet reported it
    owed       \* an advertising payload is due

vars == <<air, client, untold, owed>>

Init == air = "silent" /\ client = FALSE /\ untold = {} /\ owed = TRUE

-----------------------------------------------------------------------------
\* The data change: what was on air is older data from now on.
Change(source) ==
    /\ source \notin untold
    /\ untold' = untold \cup {source}
    /\ air' = IF air = "fresh" THEN "stale" ELSE air
    /\ UNCHANGED <<client, owed>>

Report(source) ==
    /\ source \in untold
    /\ untold' = untold \ {source}
    /\ owed' = TRUE
    /\ UNCHANGED <<air, client>>

\* A phone enters the NFC field.
Request ==
    /\ owed' = TRUE
    /\ UNCHANGED <<air, client, untold>>

\* Advertising begins, perhaps with data that changed while it was being started.
Begin ==
    /\ owed /\ ~client /\ air = "silent"
    /\ air' \in {"fresh", "stale"}
    /\ UNCHANGED <<client, untold, owed>>

\* New data replace the old on air; a call never brings older ones.
Refresh ==
    /\ owed /\ air = "stale"
    /\ air' = "fresh"
    /\ UNCHANGED <<client, untold, owed>>

\* Whoever hears nothing, or old data, has a client to blame or a report to expect.
Justified ==
    /\ air = "silent" => client
    /\ air = "stale" => untold # {}

Settle ==
    /\ owed /\ Justified
    /\ owed' = FALSE
    /\ UNCHANGED <<air, client, untold>>

\* The one connection ends the advertising.
Connect ==
    /\ ~client /\ air # "silent"
    /\ client' = TRUE /\ air' = "silent"
    /\ UNCHANGED <<untold, owed>>

Leave ==
    /\ client
    /\ client' = FALSE /\ owed' = TRUE
    /\ UNCHANGED <<air, untold>>

Next ==
    \/ \E source \in Source : Change(source) \/ Report(source)
    \/ Request \/ Begin \/ Refresh \/ Settle \/ Connect \/ Leave

Spec == Init /\ [][Next]_vars

-----------------------------------------------------------------------------
\* At all times: without a debt nobody misses anything, and a client is alone
\* with the rack (advertising_generation = applied_generation in the code).
Promise ==
    /\ ~owed => Justified
    /\ client => air = "silent"
=============================================================================
