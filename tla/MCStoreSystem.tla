--------------------------- MODULE MCStoreSystem ---------------------------
(***************************************************************************)
(* Small instances of StoreSystem: a catalogue imports an index, which     *)
(* imports a symbol.  Each configuration names the identities and          *)
(* processes it takes.                                                     *)
(***************************************************************************)
EXTENDS StoreSystem, TLC

CONSTANTS
    catalogue, index, symbol, \* identities
    reader, admin, sweeper    \* processes

MCImports ==
    [i \in Identities |->
        CASE i = catalogue -> {index}
          [] i = index     -> {symbol}
          [] OTHER         -> {}]

MCCalls ==
    [p \in Procs |->
        CASE p = sweeper -> {"gc", "dryRun"}
          [] p = reader  -> {"put", "putWrong", "get", "getBytes", "gc"}
          [] p = admin   -> {"addRoot", "removeRoot"}]

\* Two agents that declare roots in one store.
MCTwoAdmins == [p \in Procs |-> IF p = sweeper THEN {"gc"} ELSE {"addRoot"}]
=============================================================================
