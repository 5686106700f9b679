------------------------------ MODULE CdStream ------------------------------
(***************************************************************************)
(* The drive's stream buffer as CD.cpp emulates it: sectors arrive at a    *)
(* rate per VSync, accounted for only when somebody asks, and are handed   *)
(* out in whole banks until the file's last sector has arrived.            *)
(*                                                                         *)
(* The producer and consumer counts matter only by their difference,       *)
(* `buffered', and the VSync of the last update by the ticks since.        *)
(***************************************************************************)
EXTENDS Integers, FiniteSetsExt

CONSTANTS
    Capacity,  \* capacitySectors
    Bank,      \* sectorsPerBank, at most Capacity
    Rate,      \* work the drive does in a tick (sectorsPerSecond * 1001)
    Work       \* what a sector takes (60000)

(* Bound of the count of ticks: after so many the buffer is full and the   *)
(* remainder lost.                                                         *)
MaxSince == ((Capacity + 1) * Work + Rate - 1) \div Rate

Stream == [active : BOOLEAN, paused : BOOLEAN, lbn : Nat, buffered : 0 .. Capacity,
           rest : 0 .. Work - 1, since : 0 .. MaxSince]

Restarted(cd, lbn) == [cd EXCEPT !.lbn = lbn, !.buffered = 0, !.rest = 0, !.since = 0]

(* updateCdStreamProduction, for a file that ends before sector `end'.     *)
Updated(cd, end) ==
    IF ~cd.active \/ cd.paused \/ cd.since = 0 THEN cd
    ELSE LET done == cd.rest + cd.since * Rate
             arrived == done \div Work
             new == Min({arrived, Capacity - cd.buffered, end - cd.lbn - cd.buffered})
         IN [cd EXCEPT !.since = 0, !.buffered = @ + new,
                       !.rest = IF arrived > new THEN 0 ELSE done % Work]

(* Mutant: the last sectors of a file do not make a bank and stay.         *)
Readable_WholeBanks(cd, end) == (cd.buffered \div Bank) * Bank

(* readableCdStreamSectors, of an updated stream.                          *)
Readable(cd, end) ==
    IF cd.buffered = end - cd.lbn THEN cd.buffered ELSE (cd.buffered \div Bank) * Bank

(* How many ticks continueCdStRead waits when nothing is readable and      *)
(* `wanted' sectors are asked for.                                         *)
WakeIn(cd, wanted) ==
    LET next == Min({wanted, Bank})
        needed == IF next > cd.buffered THEN next - cd.buffered ELSE 1
    IN Max({1, (needed * Work - cd.rest + Rate - 1) \div Rate})

(* A tick.  What sets a stream going again also resets the count.          *)
Ticked(cd) == IF ~cd.active \/ cd.paused THEN cd
              ELSE [cd EXCEPT !.since = Min({@ + 1, MaxSince})]
=============================================================================
