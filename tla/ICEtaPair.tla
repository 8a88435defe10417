------------------------------ MODULE ICEtaPair ------------------------------
(***************************************************************************)
(* Two calls of incomplete_cholesky on the same samples, kernel, power and *)
(* blocksize, with cutoffs eta1 < eta2, one after the other.  The module    *)
(* instantiates IncompleteCholesky twice; the arguments the calls share    *)
(* are shared variables, everything else is per call.                      *)
(***************************************************************************)
EXTENDS Integers, Sequences, QArith

CONSTANTS Sizes, Vals, Etas, Powers, Blocksizes

VARIABLES
  Kx, power, blocksize,                           \* the shared arguments
  eta1, pc1, d1, a1, I1, RN1, A1, cap1, Kchol1, W1,  \* the first call
  eta2, pc2, d2, a2, I2, RN2, A2, cap2, Kchol2, W2   \* the second call

C1 == INSTANCE IncompleteCholesky
        WITH eta <- eta1, pc <- pc1, d <- d1, a <- a1, I <- I1, RN <- RN1,
             A <- A1, cap <- cap1, Kchol <- Kchol1, W <- W1
C2 == INSTANCE IncompleteCholesky
        WITH eta <- eta2, pc <- pc2, d <- d2, a <- a2, I <- I2, RN <- RN2,
             A <- A2, cap <- cap2, Kchol <- Kchol2, W <- W2

call1 == <<eta1, pc1, d1, a1, I1, RN1, A1, cap1, Kchol1, W1>>
call2 == <<eta2, pc2, d2, a2, I2, RN2, A2, cap2, Kchol2, W2>>
vars == <<Kx, power, blocksize, call1, call2>>

Init == C1!Init /\ eta2 \in Etas /\ QLt(eta1, eta2) /\ C2!Called

\* The first call runs to its end, then the second.
Next ==
  \/ C1!Next /\ pc2 = "start" /\ UNCHANGED call2
  \/ pc1 \in C1!Outcomes /\ C2!Next /\ UNCHANGED call1

Spec == Init /\ [][Next]_vars

-----------------------------------------------------------------------------
\* Spec section 5: the reconstruction error ||K - R.T R|| is non-increasing
\* as eta decreases.  When both calls return, the factor for the smaller
\* cutoff approximates K at least as well as the one for the larger; this
\* rests on the loop of lines 77-101 continuing, for eta1, exactly where it
\* stopped for eta2, and on no iteration increasing the error.
EtaMonotone ==
  (pc1 = "done" /\ pc2 = "done") => QLeq(C1!ErrSq(RN1, A1), C2!ErrSq(RN2, A2))
=============================================================================
