---------------------------- MODULE PlatformAdmin ----------------------------
(***************************************************************************)
(* Authority over the purchase-manager contract: the admin role, its       *)
(* two-step, time-delayed transfer, and the platform configuration, which  *)
(* an administrator sets directly or proposes for another one to approve.  *)
(* A call is atomic and leaves nothing behind when it returns an error.    *)
(***************************************************************************)
EXTENDS Integers, FiniteSets

CONSTANTS
    Addresses,                        \* accounts that may hold the admin role
    Deployer,                         \* the admin named in initialize
    Treasuries,                       \* accounts a caller names as treasury
    Contract,                         \* the contract's own address
    Fees,                             \* fee rates a caller asks for
    MAX_PLATFORM_FEE_BPS,
    MIN_ADMIN_TRANSFER_DELAY_SECS,
    Delays,                           \* delays a caller asks for
    MaxTime,                          \* bound on the ledger timestamp
    Absent                              \* an absent storage entry

ASSUME AdminConstants ==
    /\ Deployer \in Addresses
    /\ Fees \subseteq Nat
    /\ MAX_PLATFORM_FEE_BPS \in Nat
    /\ MIN_ADMIN_TRANSFER_DELAY_SECS \in Nat
    /\ Delays \subseteq Nat
    /\ MaxTime \in Nat

VARIABLES
    now,        \* env.ledger().timestamp()
    admins,     \* addresses with an AuthDataKey::AdminRole entry
    pending,    \* DataKey::PendingAdmin and DataKey::PendingAdminFrom
    config,     \* the PlatformConfig fields a proposal replaces
    proposal    \* DataKey::PendingPlatformConfig

authorityVars == <<now, admins, pending, config, proposal>>

PlatformConfig ==
    [treasury : Treasuries \ {Contract},
     platform_fee_bps : 0..MAX_PLATFORM_FEE_BPS, paused : BOOLEAN]
ConfigRequests ==
    [treasury : Treasuries, platform_fee_bps : Fees, paused : BOOLEAN]
PendingAdminTransfer ==
    [candidate : Addresses, from : Addresses, initiated_at : Nat,
     accept_after : Nat]
PendingPlatformConfigState == [value : PlatformConfig, proposer : Addresses]

ASSUME AbsentIsNoRecord ==
    Absent \notin PendingAdminTransfer /\ Absent \notin PendingPlatformConfigState

AuthorityTypeOK ==
    /\ now \in 0..MaxTime
    /\ admins \subseteq Addresses
    /\ pending \in PendingAdminTransfer \cup {Absent}
    /\ config \in PlatformConfig
    /\ proposal \in PendingPlatformConfigState \cup {Absent}

\* Mutant: only the treasury is checked.
AnyFee(c) == c.treasury # Contract
ValidConfig(c) ==
    c.platform_fee_bps <= MAX_PLATFORM_FEE_BPS /\ c.treasury # Contract

\* initialize.
AuthorityInit ==
    /\ now = 0
    /\ admins = {Deployer}
    /\ pending = Absent
    /\ config \in {c \in ConfigRequests : ValidConfig(c) /\ ~c.paused}
    /\ proposal = Absent

-----------------------------------------------------------------------------
(* The admin role. *)

\* Mutant: the requested delay is not checked.
AnyDelay(delay_secs) == TRUE
DelayAllowed(delay_secs) == delay_secs >= MIN_ADMIN_TRANSFER_DELAY_SECS

TransferAdmin(admin, new_admin, delay_secs) ==
    /\ admin \in admins
    /\ DelayAllowed(delay_secs)
    /\ pending' = [candidate |-> new_admin, from |-> admin,
                   initiated_at |-> now, accept_after |-> now + delay_secs]
    /\ UNCHANGED <<now, admins, config, proposal>>

\* Mutant: accepting grants the role and revokes none.
OnlyGranted(new_admin) == admins \cup {new_admin}

\* set_admin_role for the new admin, then revoke_admin_role for the old one.
RoleMoved(new_admin) == (admins \cup {new_admin}) \ {pending.from}

AcceptAdmin(new_admin) ==
    /\ pending # Absent
    /\ pending.candidate = new_admin
    /\ now >= pending.accept_after
    /\ admins' = RoleMoved(new_admin)
    /\ pending' = Absent
    /\ UNCHANGED <<now, config, proposal>>

CancelAdminTransfer(admin) ==
    /\ admin \in admins
    /\ pending # Absent
    /\ pending' = Absent
    /\ UNCHANGED <<now, admins, config, proposal>>

-----------------------------------------------------------------------------
(* The platform configuration. *)

\* update_platform_fee, pause and unpause.
UpdatePlatformFee(admin, fee) ==
    /\ admin \in admins
    /\ ValidConfig([config EXCEPT !.platform_fee_bps = fee])
    /\ config' = [config EXCEPT !.platform_fee_bps = fee]
    /\ UNCHANGED <<now, admins, pending, proposal>>

SetPaused(admin, v) ==
    /\ admin \in admins
    /\ config' = [config EXCEPT !.paused = v]
    /\ UNCHANGED <<now, admins, pending, proposal>>

ProposePlatformConfig(admin, value) ==
    /\ admin \in admins
    /\ ValidConfig(value)
    /\ proposal' = [value |-> value, proposer |-> admin]
    /\ UNCHANGED <<now, admins, pending, config>>

\* Mutant: an administrator may approve what it proposed.
AnyApprover(admin) == TRUE
OtherThanProposer(admin) == proposal.proposer # admin

ApprovePlatformConfig(admin) ==
    /\ admin \in admins
    /\ proposal # Absent
    /\ OtherThanProposer(admin)
    /\ config' = proposal.value
    /\ proposal' = Absent
    /\ UNCHANGED <<now, admins, pending>>

TimePasses ==
    /\ now < MaxTime
    /\ now' = now + 1
    /\ UNCHANGED <<admins, pending, config, proposal>>

AuthorityNext ==
    \/ \E a \in Addresses :
         \/ \E b \in Addresses, d \in Delays : TransferAdmin(a, b, d)
         \/ AcceptAdmin(a) \/ CancelAdminTransfer(a)
         \/ \E f \in Fees : UpdatePlatformFee(a, f)
         \/ \E v \in BOOLEAN : SetPaused(a, v)
         \/ \E c \in ConfigRequests : ProposePlatformConfig(a, c)
         \/ ApprovePlatformConfig(a)
    \/ TimePasses

AuthoritySpec == AuthorityInit /\ [][AuthorityNext]_authorityVars

-----------------------------------------------------------------------------
(* Properties. *)

\* Authority moves and never accumulates: through any sequence of nominations,
\* re-nominations, cancellations and acceptances at most one address holds the
\* role, and a nomination is always that of a current administrator, so a
\* former one cannot complete a transfer it began.
AuthorityIsSingle ==
    /\ \A a, b \in admins : a = b
    /\ pending # Absent => pending.from \in admins

\* The role only changes hands to a candidate nominated at least the minimum
\* delay earlier, so every administrator has had that long to cancel; and it is
\* lost only when accept_admin revokes what it has just granted, to a candidate
\* who nominated itself.
HandoverIsDelayed ==
    [][admins' # admins =>
         /\ pending # Absent
         /\ now >= pending.initiated_at + MIN_ADMIN_TRANSFER_DELAY_SECS
         /\ admins' = {pending.candidate} \ {pending.from}]_authorityVars

\* Two-person control: the treasury changes only by a proposal of one
\* administrator approved by another, and since there is one administrator at
\* a time, by then the proposer has handed the role over.
TreasuryNeedsTwoPeople ==
    [][config'.treasury # config.treasury =>
         /\ proposal # Absent
         /\ config'.treasury = proposal.value.treasury
         /\ admins # {} /\ proposal.proposer \notin admins]_authorityVars

=============================================================================
