------------------------------- MODULE Services -------------------------------
(***************************************************************************)
(* The components that share no state with each other, in one specification: *)
(* arena says which of them runs in a behaviour, the others stand still.     *)
(***************************************************************************)
EXTENDS Otp, RefreshTokens, Accounts, SignupLimit, Gateway, StorageClient, Dedupe

VARIABLE arena

Arenas == {"otp", "tokens", "accounts", "limit", "gateway", "storage", "dedupe"}

servicesVars ==
  <<arena, otpVars, tokenVars, accountVars, limitVars, gatewayVars, storageVars,
    dedupeVars>>

\* A component that stands still does so in one of its initial states.
Init ==
  /\ arena \in Arenas
  /\ OtpInit /\ TokensInit /\ AccountsInit /\ LimitInit /\ GatewayInit
  /\ StorageInit /\ DedupeInit
  /\ arena # "accounts" => users = [u \in Users |-> NoRow]
  /\ arena # "storage" => "ours" \in rules /\ client = "valid"
  /\ arena # "dedupe" => ~execute

Only(name) ==
  /\ arena = name /\ UNCHANGED arena
  /\ name # "otp" => UNCHANGED otpVars
  /\ name # "tokens" => UNCHANGED tokenVars
  /\ name # "accounts" => UNCHANGED accountVars
  /\ name # "limit" => UNCHANGED limitVars
  /\ name # "gateway" => UNCHANGED gatewayVars
  /\ name # "storage" => UNCHANGED storageVars
  /\ name # "dedupe" => UNCHANGED dedupeVars

Next ==
  \/ Only("otp") /\ OtpNext
  \/ Only("tokens") /\ TokensNext
  \/ Only("accounts") /\ AccountsNext
  \/ Only("limit") /\ LimitNext
  \/ Only("gateway") /\ GatewayNext
  \/ Only("storage") /\ StorageNext
  \/ Only("dedupe") /\ DedupeNext

Spec == Init /\ [][Next]_servicesVars

-----------------------------------------------------------------------------

\* Every component keeps its inductive invariant, which contains its type
\* invariant and the safety properties of the run.
ServicesInv ==
  /\ OtpInv /\ TokensInv /\ LimitInv /\ SignupInv
  /\ GatewayInv /\ StorageInv /\ DedupeInv

=============================================================================
