------------------------------- MODULE DynReg -------------------------------
(***************************************************************************)
(* The bootstrap links of dynamic client registration (class               *)
(* DynamicSlugStore of src/src/beaconmcp/dashboard/dyn_reg.py) and the     *)
(* clients that are registered through them (create_dynamic and revoke of  *)
(* src/src/beaconmcp/auth.py, here without the file: see ClientStore).     *)
(*                                                                         *)
(* A link is open until it is used, deleted or fifteen minutes old.  Time  *)
(* enters only through that: an open link may expire at any moment.        *)
(*                                                                         *)
(* Definitions whose names end in Bug are not part of the specification:   *)
(* they are what the definition after them must not be.                    *)
(***************************************************************************)
EXTENDS Naturals, FiniteSets

CONSTANTS
  Owner,       \* clients of `beaconmcp auth create', with a TOTP seed
  NoOne,       \* the owner of those
  MaxSlug,     \* bound on the links that are minted
  MaxDerived   \* bound on the clients that are registered

ASSUME DynRegAssumption ==
  /\ MaxSlug \in Nat /\ MaxDerived \in Nat
  /\ IsFiniteSet(Owner) /\ NoOne \notin Owner
  /\ Owner \cap (0..MaxDerived) = {} /\ NoOne \notin 0..MaxDerived

VARIABLES
  clients,     \* ClientStore._clients: the owner of each client
  slugs,       \* table oauth_dynamic_slugs
  made,        \* how many derived clients were created: the source of fresh ids
  minted,      \* how many links were minted
  registered,  \* history: what the registrations answered with 201
  stray        \* history: clients of an earlier link, or of a registration the process
               \* did not survive

dynVars == <<clients, slugs, made, minted, registered, stray>>

Slug    == 1..MaxSlug
Derived == 1..MaxDerived
Client  == Owner \cup Derived

SlugRow == [owner : Client, status : {"open", "expired", "used", "deleted"},
            client : Derived \cup {NoOne}]

DynTypeOK ==
  /\ DOMAIN clients \subseteq Client
  /\ \A c \in DOMAIN clients : clients[c] \in Client \cup {NoOne}
  /\ slugs \in [1..minted -> SlugRow]
  /\ made \in 0..MaxDerived /\ minted \in 0..MaxSlug
  /\ registered \subseteq [slug : Slug, client : Derived]
  /\ stray \subseteq Derived

\* A connector may be left from an earlier link.
DynInit ==
  /\ made \in {0, 1} \cap 0..MaxDerived
  /\ \E o \in Owner :
       clients = [c \in Owner \cup 1..made |-> IF c \in Owner THEN NoOne ELSE o]
  /\ slugs = <<>> /\ minted = 0
  /\ registered = {} /\ stray = 1..made

-----------------------------------------------------------------------------
\* revoke: deleting an owner takes its derived clients along, deleting a
\* derived one does not.
Cascade(c) ==
  {c} \cup (IF clients[c] = NoOne THEN {d \in DOMAIN clients : clients[d] = c} ELSE {})

revoke(c) ==
  clients' = [d \in DOMAIN clients \ Cascade(c) |-> clients[d]]

\* mint, after prune_expired: an expired row that was never used is dropped.
mint(c) ==
  /\ minted < MaxSlug
  /\ minted' = minted + 1
  /\ slugs' = [s \in 1..minted + 1 |->
                 IF s > minted THEN [owner |-> c, status |-> "open", client |-> NoOne]
                 ELSE IF slugs[s].status = "expired" THEN [slugs[s] EXCEPT !.status = "deleted"]
                 ELSE slugs[s]]

\* delete_unused: the owner's own link, and never one that was used.
Deletable(s, c) == slugs[s].owner = c /\ slugs[s].status \in {"open", "expired"}

delete_unused(s, c) ==
  /\ Deletable(s, c)
  /\ slugs' = [slugs EXCEPT ![s].status = "deleted"]

\* load: any row, used and expired ones included.
load_slug(s) == s \in DOMAIN slugs /\ slugs[s].status # "deleted"

\* create_dynamic raises when the owner is gone.
CanCreateBug(owner) == TRUE
CanCreate(owner)    == owner \in DOMAIN clients

create_dynamic(owner, d) ==
  /\ d = made + 1 /\ d \in Derived
  /\ made' = d
  /\ clients' = [x \in DOMAIN clients \cup {d} |-> IF x = d THEN owner ELSE clients[x]]

\* consume: UPDATE ... WHERE used_at IS NULL AND expires_at > now.
ConsumableBug(s) == slugs[s].status # "deleted"
Consumable(s)    == slugs[s].status = "open"

consume(s, d) ==
  slugs' = [slugs EXCEPT ![s].status = "used", ![s].client = d]

slug_expires(s) ==
  /\ s \in DOMAIN slugs /\ slugs[s].status = "open"
  /\ slugs' = [slugs EXCEPT ![s].status = "expired"]
  /\ UNCHANGED <<clients, made, minted, registered, stray>>

(***************************************************************************)
(* POST /register of a link (dcr_register in __main__.py): the row is read *)
(* before the body is awaited; what follows is one turn of the event loop. *)
(* The client is created first and taken back when the link turns out to   *)
(* be spent: nobody saw it, so the net effect is nothing but its id.       *)
(***************************************************************************)
dcr_register(s, owner) ==
  LET d == made + 1
  IN  /\ CanCreate(owner)
      /\ IF Consumable(s)
           THEN /\ create_dynamic(owner, d)
                /\ consume(s, d)
                /\ registered' = registered \cup {[slug |-> s, client |-> d]}
           ELSE UNCHANGED <<clients, slugs, made, registered>>
      /\ UNCHANGED <<minted, stray>>

\* The process dies between create_dynamic and consume: clients.json has the
\* client, the link is as it was, and nobody was told the secret.
dcr_register_dies(s, owner) ==
  LET d == made + 1
  IN  /\ CanCreate(owner)
      /\ create_dynamic(owner, d)
      /\ stray' = stray \cup {d}
      /\ UNCHANGED <<slugs, minted, registered>>
=============================================================================
