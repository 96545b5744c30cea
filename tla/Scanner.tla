-------------------------------- MODULE Scanner --------------------------------
(***************************************************************************)
(* hooks/useBarcodeScanner.ts of the point of sale: which keystrokes of    *)
(* the page are taken for those of a barcode scanner.                      *)
(*                                                                         *)
(* Time is counted in ticks since the last key that the buffer took, and   *)
(* is not told apart once it is past every limit.  A key of a field that   *)
(* is no scanner target, and one that is neither printable, a modifier nor *)
(* the terminator, reset the buffer: both are Other.  The keydown listener *)
(* runs to completion.                                                     *)
(*                                                                         *)
(* `typed' and `scan' are history: no guard reads them.                    *)
(***************************************************************************)
EXTENDS Integers, Sequences

CONSTANTS Keys,            \* printable keys
          minLength,
          maxIntervalMs,   \* in ticks
          MaxBuffer        \* bound: keys typed without a reset

ASSUME ScannerAssumption ==
    minLength \in Nat \ {0} /\ maxIntervalMs \in Nat \ {0} /\ MaxBuffer \in Nat

VARIABLES
    buffer,
    started,    \* lastEventTs > 0
    sinceLast,  \* ticks since lastEventTs, up to Forgotten
    typed,      \* history: the printable keys since the last reset, each with the ticks before it
    scan        \* history: what the last keystroke scanned

scannerVars == <<buffer, started, sinceLast, typed, scan>>

Forgotten == 4 * maxIntervalMs + 1
NoScan    == <<>>

ScannerTypeOK ==
    /\ buffer \in Seq(Keys) /\ scan \in Seq(Keys)
    /\ started \in BOOLEAN
    /\ sinceLast \in 0..Forgotten
    /\ \A n \in DOMAIN typed : typed[n].key \in Keys /\ typed[n].gap \in 0..Forgotten

ScannerInit ==
    /\ buffer = <<>> /\ started = FALSE /\ sinceLast = 0
    /\ typed = <<>> /\ scan = NoScan

Passes ==
    /\ sinceLast < Forgotten
    /\ sinceLast' = sinceLast + 1
    /\ scan' = NoScan
    /\ UNCHANGED <<buffer, started, typed>>

\* lastEventTs starts again from 0.
Reset == buffer' = <<>> /\ started' = FALSE /\ sinceLast' = 0 /\ typed' = <<>>

\* Shift and its like: nothing, lastEventTs included.
Modifier ==
    /\ scan' = NoScan
    /\ UNCHANGED <<buffer, started, sinceLast, typed>>

Other == Reset /\ scan' = NoScan

\* Fault: a slow key goes on with the buffer.
FedPatiently(key) == Append(buffer, key)

\* A key slower than a scanner's is the seed of a new burst.
Fed(key) == IF started /\ sinceLast > maxIntervalMs THEN <<key>> ELSE Append(buffer, key)

Printable(key) ==
    /\ Len(typed) < MaxBuffer
    /\ buffer' = Fed(key)
    /\ started' = TRUE /\ sinceLast' = 0
    /\ typed' = Append(typed, [key |-> key, gap |-> IF started THEN sinceLast ELSE 0])
    /\ scan' = NoScan

\* The terminator only counts if it is part of an active burst.
Terminator ==
    /\ scan' = IF /\ Len(buffer) >= minLength
                  /\ ~started \/ sinceLast <= 4 * maxIntervalMs
               THEN buffer ELSE NoScan
    /\ Reset

ScannerNext ==
    \/ Passes \/ Modifier \/ Other \/ Terminator
    \/ \E key \in Keys : Printable(key)

ScannerSpec == ScannerInit /\ [][ScannerNext]_scannerVars

----------------------------------------------------------------------------
\* The keys from the n-th on came as a scanner sends them.
Burst(n) == \A m \in (n + 1)..Len(typed) : typed[m].gap <= maxIntervalMs

\* What is scanned is a whole burst and nothing but one: a keystroke scans the keys
\* since the last pause longer than a scanner's, if they are enough and the terminator
\* follows in time, and no other keystroke scans anything ("Anything that doesn't fit
\* that pattern resets the buffer").
ScansWholeBursts ==
    [][scan' # NoScan =>
        \E n \in DOMAIN typed :
            /\ Burst(n) /\ (n > 1 => ~Burst(n - 1))
            /\ Len(typed) - n + 1 >= minLength /\ sinceLast <= 4 * maxIntervalMs
            /\ scan' = [m \in 1..(Len(typed) - n + 1) |-> typed[n + m - 1].key]]_scannerVars
=============================================================================
