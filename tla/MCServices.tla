----------------------------- MODULE MCServices -----------------------------
(***************************************************************************)
(* The small services side by side, one at a time: `part` picks one of     *)
(* them, and the others rest in their initial state.                       *)
(***************************************************************************)
EXTENDS LockdownGuard, Billing, Companion, AdminLive, EsimSetup,
        SlotStatus, PhoneScreen, TLC

\* Both invoices pay the same package.
PaidBy == [i \in Invoices |-> CHOOSE s \in Services : TRUE]

VARIABLE part

Parts == {"guard", "billing", "companion", "admin", "esim", "slot", "screen"}
services == <<part, vars, billing, compVars, adminVars, esimVars,
             slotVars, screenVars>>

ServicesInit ==
  /\ part \in Parts
  /\ Init /\ (part # "guard" => ~connected)
  /\ BillingInit
  /\ CompInit /\ (part # "companion" => owner)
  /\ AdminInit
  /\ EsimInit /\ (part # "esim" => profile = "none" /\ registered)
  /\ SlotInit /\ (part # "slot" => farmUp /\ reachable)
  /\ ScreenInit

Only(p, others) == part = p /\ UNCHANGED <<part, others>>

GuardOnly     == Only("guard", <<billing, compVars, adminVars, esimVars,
                                  slotVars, screenVars>>)
BillingOnly   == Only("billing", <<vars, compVars, adminVars, esimVars,
                                  slotVars, screenVars>>)
CompanionOnly == Only("companion", <<vars, billing, adminVars, esimVars,
                                  slotVars, screenVars>>)
AdminOnly     == Only("admin", <<vars, billing, compVars, esimVars,
                                  slotVars, screenVars>>)
EsimOnly      == Only("esim", <<vars, billing, compVars, adminVars,
                                  slotVars, screenVars>>)
SlotOnly      == Only("slot", <<vars, billing, compVars, adminVars,
                                  esimVars, screenVars>>)
ScreenOnly    == Only("screen", <<vars, billing, compVars, adminVars,
                                  esimVars, slotVars>>)

ServicesNext ==
  \/ GuardOnly /\ Next
  \/ BillingOnly /\ BillingNext
  \/ CompanionOnly /\ CompNext
  \/ AdminOnly /\ AdminNext
  \/ EsimOnly /\ EsimNext
  \/ SlotOnly /\ SlotNext
  \/ ScreenOnly /\ ScreenNext

ServicesSpec == ServicesInit /\ [][ServicesNext]_services

-----------------------------------------------------------------------------

\* What holds at every moment in the services: the shapes of their states, grants
\* counted once, no download handed over twice, one session per administrator, one
\* viewer per stream.
ServicesInv ==
  /\ TypeOK
  /\ BillingTypeOK /\ EventsCountOnce
  /\ CompTypeOK /\ OncePerJob
  /\ AdminTypeOK /\ OneSessionPerAdmin /\ ViewerSees
  /\ EsimTypeOK /\ SlotTypeOK /\ ScreenTypeOK

-----------------------------------------------------------------------------
(* What must happen, each under the fairness of its own service: a service    *)
(* that rests is not fair, and its formula holds.                              *)

\* A phone that stays within reach of adb gets its guard back; the guard takes the
\* customer off every screen that is not his, and the dashboard ends up telling the
\* screen he is on.
FairGuardReturns == /\ Fairness => GuardReturns
                    /\ ScreenFairness => ScreenComesRight

\* A viewer who waits for a warm-up is woken when it ends, and no download keeps
\* the companion's server for ever.
FairWaitsEnd == /\ AdminFairness => WaitsEnd
                /\ CompFairness => WaitEnds

\* A customer's own eSIM is confirmed in the end.
FairConfirmed == EsimFairness => ConfirmedInTheEnd

\* A bay that settles is shown as it is.
FairSettledIsShown == SlotFairness => SettledIsShown

=============================================================================
