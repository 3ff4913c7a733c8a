------------------------- MODULE MCTransferRequests -------------------------
EXTENDS TransferRequests, TLC

Tron(id, kind, from, need, activation) ==
    [id |-> id, kind |-> kind, own |-> FALSE, from |-> {from},
     need |-> need, estimate |-> need, activation |-> activation]

\* Two hot wallets that want energy, the second of them not activated; a request for
\* the address of the first one with the id of the second, which wants only its
\* activation paid with energy; and the processing wallet itself.
MCAccounts ==
    [c \in Callers |->
        CASE c = 1 -> Tron(1, "resources", 1, 2, 0)
          [] c = 2 -> Tron(3, "burntrx", 1, 0, 1)
          [] c = 3 -> Tron(3, "resources", 2, 1, 1)
          [] c = 4 -> [Tron(4, "cloud_delegate", 3, 0, 0) EXCEPT !.own = TRUE]]

\* Sweeps of overlapping addresses.
MCUtxo ==
    [c \in Callers |->
        [Tron(c, "utxo", 1, 0, 0) EXCEPT !.from = IF c = 1 THEN {1} ELSE IF c = 2 THEN {2} ELSE {1, 3}]]

=============================================================================
