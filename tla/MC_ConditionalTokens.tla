------------------------ MODULE MC_ConditionalTokens ------------------------
(* Two instances of ConditionalTokens in one run: two binary conditions of   *)
(* one holder, for nested positions, and one condition of three outcomes and *)
(* two holders, for partial index sets, shared results and transfers.        *)
EXTENDS ConditionalTokens, TLC

CONSTANTS Holders,  \* accounts, conditions and outcomes of the second instance
          Race,
          Runners

ASSUME RaceAssumption ==
    /\ IsFiniteSet(Holders) /\ IsFiniteSet(Race)
    /\ IsFiniteSet(Runners) /\ Cardinality(Runners) > 1

VARIABLE nested  \* whether this behaviour is the first instance's

ThreeWay == INSTANCE ConditionalTokens
              WITH Accounts <- Holders, Conditions <- Race, Outcomes <- Runners,
                   Endowment <- 1, Amounts <- {1}, MaxSupply <- 1

MCInit == nested \in BOOLEAN /\ IF nested THEN LedgerInit ELSE ThreeWay!LedgerInit
MCNext == UNCHANGED nested /\ \/ nested /\ LedgerNext
                              \/ ~nested /\ ThreeWay!LedgerNext
MCSpec == MCInit /\ [][MCNext]_<<ledgerVars, nested>>

Alike == UNION {Permutations(S) : S \in {Outcomes, Conditions, Runners}}

(* In both instances the collateral covers the face value of everything     *)
(* outstanding, whatever the open conditions turn out to be.                *)
LedgerSolvent == IF nested THEN Solvent ELSE ThreeWay!Solvent

(* In both instances the books balance exactly until something is reported. *)
LedgerExact == IF nested THEN ExactBacking ELSE ThreeWay!ExactBacking

=============================================================================
