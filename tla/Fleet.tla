--------------------------------- MODULE Fleet ---------------------------------
(***************************************************************************)
(* The keystores of the reference agents and of the grid's action wallet, the  *)
(* scripts that create, fund and register them, and the services that sign     *)
(* with them.  Every script is a process of its own that may be run twice,      *)
(* beside another, or be killed between two of its writes.                    *)
(*                                                                          *)
(* A definition whose comment starts with "Slip:" is not part of the system. *)
(***************************************************************************)
EXTENDS Absent, Integers, Sequences, FiniteSets, FiniteSetsExt, Functions

CONSTANTS
    Providers,      \* the agents, "health" among them
    Makers,         \* the creation scripts that may run at once
    MaxWallets,     \* a bound on the wallets ever created
    MaxFundings,    \* a bound on the transfers
    MaxIdentities,  \* a bound on the registrations
    Moved           \* TRUE: the operator may go on with an empty data directory

ASSUME ProvidersAssumption == "action" \notin Providers     \* the grid's wallet is no agent

VARIABLES
    dir,            \* the data directory: keystores and password of each role
    made,           \* the wallets in the order they were created, with their roles
    makers,         \* the creation scripts that run
    signed,         \* the wallets each live service has signed with, the last one now
    funded,         \* the transfers: for which role, to whom, and whose service was asked
    identities,     \* the identities on chain: provider and endpoint
    records,        \* the identity record of each agent
    registrar       \* the registration script

fleetVars == <<dir, made, makers, signed, funded, identities, records, registrar>>

Roles == Providers \cup {"action"}

Wallets == DOMAIN made

EmptyRole == [keys |-> {}, pass |-> None]

NoScript == [at |-> "off", role |-> None, wallet |-> None]

NoRegistrar == [at |-> "off", role |-> None, url |-> None, live |-> None, wallet |-> None]

FleetInit ==
    /\ dir = [r \in Roles |-> EmptyRole]
    /\ made = <<>>
    /\ makers = [m \in Makers |-> NoScript]
    /\ signed = [p \in Providers |-> <<>>]
    /\ funded = <<>>
    /\ identities = <<>>
    /\ records = [p \in Providers |-> None]
    /\ registrar = NoRegistrar

(* listWallets(dir)[0]; which of two keystores comes first depends on their     *)
(* addresses, and the earlier one stands for either.                         *)
LocalWallet(r) == IF dir[r].keys = {} THEN None ELSE Min(dir[r].keys)

LiveWallet(p) == IF signed[p] = <<>> THEN None ELSE signed[p][Len(signed[p])]

(* -------------------------------- creation ------------------------------- *)

(* The script lists the keystores and reads the password.  It refuses to guess  *)
(* between two keystores and to go on with one half of a pair; a whole pair it  *)
(* only shows again.                                                         *)
ListKeystores(m, r) ==
    /\ makers[m].at = "off"
    /\ Len(made) < MaxWallets
    /\ dir[r] = EmptyRole
    /\ makers' = [makers EXCEPT ![m] = [at |-> "persist", role |-> r, wallet |-> None]]
    /\ UNCHANGED <<dir, made, signed, funded, identities, records, registrar>>

PersistKeystore(m) ==
    /\ makers[m].at = "persist"
    /\ Len(made) < MaxWallets
    /\ made' = Append(made, makers[m].role)
    /\ dir' = [dir EXCEPT ![makers[m].role].keys = @ \cup {Len(made) + 1}]
    /\ makers' = [makers EXCEPT ![m].at = "password", ![m].wallet = Len(made) + 1]
    /\ UNCHANGED <<signed, funded, identities, records, registrar>>

(* Written with flag "wx": a password that is there is never replaced.          *)
WritePassword(m) ==
    /\ makers[m].at = "password"
    /\ dir' = IF dir[makers[m].role].pass = None
              THEN [dir EXCEPT ![makers[m].role].pass = makers[m].wallet] ELSE dir
    /\ makers' = [makers EXCEPT ![m] = NoScript]
    /\ UNCHANGED <<made, signed, funded, identities, records, registrar>>

MakerKilled(m) ==
    /\ makers[m].at # "off"
    /\ makers' = [makers EXCEPT ![m] = NoScript]
    /\ UNCHANGED <<dir, made, signed, funded, identities, records, registrar>>

(* Between two scripts the operator goes on with a new CANNED_DATA_DIR; the     *)
(* services keep theirs.                                                     *)
EmptyDirectory ==
    /\ Moved
    /\ made # <<>>
    /\ \A m \in DOMAIN makers : makers[m].at = "off"
    /\ registrar.at = "off"
    /\ dir' = [r \in Roles |-> EmptyRole]
    /\ records' = [p \in Providers |-> None]
    /\ UNCHANGED <<made, makers, signed, funded, identities, registrar>>

(* ------------------------------ live service ----------------------------- *)

(* A service opens a keystore with the stored password: an address set in its   *)
(* environment, or the only one there is.                                    *)
Serve(p) ==
    /\ dir[p].pass # None
    /\ dir[p].pass \in dir[p].keys
    /\ LiveWallet(p) # dir[p].pass
    /\ signed' = [signed EXCEPT ![p] = Append(@, dir[p].pass)]
    /\ UNCHANGED <<dir, made, makers, funded, identities, records, registrar>>

(* -------------------------------- funding -------------------------------- *)

Recipient(p, override) ==
    CASE override # None -> override
      [] override = None /\ records[p] # None -> records[p].provider
      [] OTHER -> LocalWallet(p)

Fundable(p, to) ==
    /\ to # None
    /\ LocalWallet(p) \in {None, to}
    /\ \A q \in Providers \ {p} :
        /\ records[q] # None => records[q].provider # to
        /\ LocalWallet(q) # to

(* Slip: no live service is asked.                                           *)
PayableUnasked(p, to, url) == Fundable(p, to)

(* The recipient is the provider that the service at the address asked signs    *)
(* with.  Whose service that is, the script does not check.                   *)
Payable(p, to, url) == Fundable(p, to) /\ LiveWallet(url) = to

(* The recipient and the address of the service may both be set by hand.       *)
FundProvider(p) ==
    /\ Len(funded) < MaxFundings
    /\ \E override \in Wallets \cup {None}, url \in Providers :
        LET to == Recipient(p, override)
        IN  /\ Payable(p, to, url)
            /\ funded' = Append(funded, [role |-> p, to |-> to, asked |-> url])
    /\ UNCHANGED <<dir, made, makers, signed, identities, records, registrar>>

(* fund-grid-action-wallet pays the one keystore of the action role.           *)
FundAction ==
    /\ Len(funded) < MaxFundings
    /\ Cardinality(dir["action"].keys) = 1
    /\ \A q \in Providers : LocalWallet(q) # LocalWallet("action")
    /\ funded' = Append(funded, [role |-> "action", to |-> LocalWallet("action"),
                                 asked |-> "action"])
    /\ UNCHANGED <<dir, made, makers, signed, identities, records, registrar>>

(* ------------------------------ registration ----------------------------- *)

(* The registrar probes the endpoint it was given.  Every registrar but the one *)
(* of the health agent asks for its own category.                            *)
ProbeEndpoint(p, url) ==
    /\ registrar.at = "off"
    /\ Len(identities) < MaxIdentities
    /\ LiveWallet(url) # None
    /\ p # "health" => url = p
    /\ registrar' = [at |-> "open", role |-> p, url |-> url, live |-> LiveWallet(url),
                     wallet |-> None]
    /\ UNCHANGED <<dir, made, makers, signed, funded, identities, records>>

(* Slip: the local wallet is not compared with the probed provider.            *)
OwnWalletAny(w) == TRUE

OwnWallet(w) == registrar.role # "health" => w = registrar.live

(* The records a registrar compares its own with: those of the agents that were  *)
(* built before.                                                             *)
Siblings(p) ==
    Providers \cap CASE p = "health" -> {}
                     [] p = "rebalancing" -> {"health"}
                     [] p = "yield" -> {"health", "rebalancing"}
                     [] OTHER -> {"health", "rebalancing", "yield"}

Distinct(w) ==
    \A q \in Siblings(registrar.role) :
        records[q] # None => records[q].provider # w /\ records[q].endpoint # registrar.url

(* The wallet must open with the stored password.  The fleet check that follows *)
(* the transaction repeats what is checked here.                             *)
OpenWallet ==
    /\ registrar.at = "open"
    /\ \E w \in dir[registrar.role].keys :
        /\ w = dir[registrar.role].pass
        /\ OwnWallet(w)
        /\ Distinct(w)
        /\ registrar' = [registrar EXCEPT !.at = "mine", !.wallet = w]
    /\ UNCHANGED <<dir, made, makers, signed, funded, identities, records>>

RegisterAgent ==
    /\ registrar.at = "mine"
    /\ identities' = Append(identities, [owner |-> registrar.wallet, endpoint |-> registrar.url])
    /\ registrar' = [registrar EXCEPT !.at = "record"]
    /\ UNCHANGED <<dir, made, makers, signed, funded, records>>

(* The id of the new identity may be missing from the answer of the SDK.        *)
WriteIdentity ==
    /\ registrar.at = "record"
    /\ \E id \in {Len(identities), None} :
        records' = [records EXCEPT ![registrar.role] =
            [provider |-> registrar.wallet, endpoint |-> registrar.url, id |-> id]]
    /\ registrar' = NoRegistrar
    /\ UNCHANGED <<dir, made, makers, signed, funded, identities>>

(* A check that fails, a call that throws, a kill.                            *)
RegistrarEnds ==
    /\ registrar.at # "off"
    /\ registrar' = NoRegistrar
    /\ UNCHANGED <<dir, made, makers, signed, funded, identities, records>>

FleetNext ==
    \/ \E m \in DOMAIN makers :
        PersistKeystore(m) \/ WritePassword(m) \/ MakerKilled(m)
            \/ \E r \in Roles : ListKeystores(m, r)
    \/ \E p \in Providers : Serve(p) \/ FundProvider(p) \/ \E url \in Providers : ProbeEndpoint(p, url)
    \/ EmptyDirectory \/ FundAction
    \/ OpenWallet \/ RegisterAgent \/ WriteIdentity \/ RegistrarEnds

----------------------------------------------------------------------------
(* Whatever the scripts were killed at, run twice or given as a recipient or as *)
(* a service, money goes only where it can be used: for the grid to a wallet of *)
(* the grid, for an agent to one that the service asked has signed with and that *)
(* was created for the agent of that service.  A wallet whose password was lost  *)
(* is never paid (fund-reference-provider, fund-grid-action-wallet).           *)
FundsReachWhoSigns ==
    \A k \in DOMAIN funded :
        LET f == funded[k]
        IN  /\ made[f.to] = f.asked
            /\ f.role \in Providers => f.asked \in Providers /\ f.to \in Range(signed[f.asked])
            /\ f.role = "action" => f.asked = "action"

(* The identity record of every agent but the health agent names its own        *)
(* endpoint and a wallet the service there has signed with, and an identity on   *)
(* chain that says the same stands behind it, although the service may be        *)
(* restarted and the directory replaced while the registrar runs.             *)
RecordServed ==
    \A p \in Providers \ {"health"} :
        records[p] # None =>
            /\ records[p].endpoint = p
            /\ records[p].provider \in Range(signed[p])
            /\ \E k \in DOMAIN identities :
                identities[k] = [owner |-> records[p].provider, endpoint |-> p]

=============================================================================
