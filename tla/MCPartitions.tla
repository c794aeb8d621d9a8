---------------------------- MODULE MCPartitions ----------------------------
(***************************************************************************)
(* Partitions for TLC, with the code's own months: the migration's list,   *)
(* and a calendar that ends once the oldest of them has expired.           *)
(***************************************************************************)
EXTENDS Partitions

MCBootstrap == {<<2026, m>> : m \in 8..12} \cup {<<2027, 1>>, <<2027, 2>>}

\* Installs from which the window is full until the first run.
MCEarlyInstalls == {<<2026, 8>>, <<2026, 12>>}

ASSUME InstallsAssumption == EarlyInstalls

MCLastMonth == <<2028, 1>>
=============================================================================
