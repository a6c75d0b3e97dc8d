------------------------------ MODULE BankConfig ------------------------------
(***************************************************************************)
(* The configuration versions of one bank profile: drafted in              *)
(* app/commands/bank_configuration.py, activated in                        *)
(* app/bankconfig/resolution.py.  A version is a snapshot that is never    *)
(* edited; activating one retires those that were active, points the       *)
(* profile at it and gives it the statement mapping imports need.          *)
(*                                                                         *)
(* Neither command locks what it reads: both are modelled as a read and a  *)
(* later commit, between which other sessions commit theirs.  The unique   *)
(* constraints are judged at the commit.                                   *)
(***************************************************************************)
EXTENDS Naturals, FiniteSets

CONSTANTS
    Versions,   \* versions that may be drafted
    Admins,     \* sessions of business administrators
    FirstNumbers, \* what an operator may number a profile's first version
    Window,     \* Window[v] = [from, to]: effective_from and effective_to, either Null
    Null

ASSUME VersionsAssumption == Null \notin Versions /\ FirstNumbers \subseteq Nat

VARIABLES
    vstatus,    \* bank_profile_versions.status, "none" before the row exists
    number,     \* version_number
    current,    \* bank_profiles.current_version_id
    mapped,     \* versions with an active statement mapping
    admin       \* what each administrator's open transaction has read

configVars == <<vstatus, number, current, mapped, admin>>

Existing == {v \in Versions : vstatus[v] # "none"}
Active   == {v \in Versions : vstatus[v] = "active"}
Free     == [at |-> "idle", version |-> Null, replaces |-> {}, number |-> 0]

ConfigTypeOK ==
    /\ vstatus \in [Versions -> {"none", "draft", "active", "retired"}]
    /\ number \in [Versions -> Nat]
    /\ current \in Versions \cup {Null}
    /\ mapped \subseteq Versions
    /\ admin \in [Admins -> [at : {"idle", "numbered", "activating"}, number : Nat,
                             version : Versions \cup {Null}, replaces : SUBSET Versions]]

ConfigInit ==
    /\ vstatus = [v \in Versions |-> "none"]
    /\ number = [v \in Versions |-> 0]
    /\ current = Null
    /\ mapped = {}
    /\ admin = [a \in Admins |-> Free]

-----------------------------------------------------------------------------
(* Windows are half open, [from, to), and Null leaves an end unbounded. *)

EndsBefore(w, x) == w.to # Null /\ x.from # Null /\ w.to <= x.from

Overlap(v, w) == ~EndsBefore(Window[v], Window[w]) /\ ~EndsBefore(Window[w], Window[v])

-----------------------------------------------------------------------------
(* Drafting. *)

\* The profile and its first version, which the operator numbers.
CreateProfile(v) ==
    /\ Existing = {}
    /\ \A a \in Admins : admin[a].at = "idle"
    /\ vstatus' = [vstatus EXCEPT ![v] = "draft"]
    /\ \E n \in FirstNumbers : number' = [number EXCEPT ![v] = n]
    /\ UNCHANGED <<current, mapped, admin>>

\* create_version numbers the draft after the versions it finds.
NumberVersion(a) ==
    /\ admin[a].at = "idle"
    /\ \E v \in Existing :
          /\ \A w \in Existing : number[w] <= number[v]
          /\ admin' = [admin EXCEPT ![a] = [at |-> "numbered", version |-> Null,
                                            replaces |-> {}, number |-> number[v] + 1]]
    /\ UNCHANGED <<vstatus, number, current, mapped>>

\* uq_bank_profile_versions_number.
Taken(n) == \E v \in Existing : number[v] = n

CreateVersion(a, v) ==
    /\ admin[a].at = "numbered"
    /\ vstatus[v] = "none" /\ ~Taken(admin[a].number)
    /\ vstatus' = [vstatus EXCEPT ![v] = "draft"]
    /\ number' = [number EXCEPT ![v] = admin[a].number]
    /\ admin' = [admin EXCEPT ![a] = Free]
    /\ UNCHANGED <<current, mapped>>

-----------------------------------------------------------------------------
(* Activation. *)

\* activate_version reads the draft and the active versions, and refuses a clash.
BeginActivation(a, v) ==
    /\ admin[a].at = "idle"
    /\ vstatus[v] = "draft"
    /\ \A w \in Active : ~Overlap(v, w)
    /\ admin' = [admin EXCEPT ![a] = [at |-> "activating", version |-> v,
                                      replaces |-> Active, number |-> 0]]
    /\ UNCHANGED <<vstatus, number, current, mapped>>

\* Mutation of Activate: the new version is left without its statement mapping.
ActivateUnmapped(a) ==
    /\ admin[a].at = "activating"
    /\ vstatus' = [v \in Versions |-> IF v = admin[a].version THEN "active"
                                      ELSE IF v \in admin[a].replaces THEN "retired"
                                      ELSE vstatus[v]]
    /\ current' = admin[a].version
    /\ admin' = [admin EXCEPT ![a] = Free]
    /\ UNCHANGED <<number, mapped>>

\* The commit writes the statuses it decided on, whatever they have become, the
\* pointer, and the mapping unless there is one.
Activate(a) ==
    /\ admin[a].at = "activating"
    /\ vstatus' = [v \in Versions |-> IF v = admin[a].version THEN "active"
                                      ELSE IF v \in admin[a].replaces THEN "retired"
                                      ELSE vstatus[v]]
    /\ current' = admin[a].version
    /\ mapped' = mapped \cup {admin[a].version}
    /\ admin' = [admin EXCEPT ![a] = Free]
    /\ UNCHANGED number

\* A refused constraint, or a death: nothing of the transaction remains.
RollBack(a) ==
    /\ admin[a].at # "idle"
    /\ admin' = [admin EXCEPT ![a] = Free]
    /\ UNCHANGED <<vstatus, number, current, mapped>>

-----------------------------------------------------------------------------
ConfigNext ==
    \/ \E v \in Versions : CreateProfile(v)
    \/ \E a \in Admins :
          \/ NumberVersion(a) \/ Activate(a) \/ RollBack(a)
          \/ \E v \in Versions : CreateVersion(a, v) \/ BeginActivation(a, v)

ConfigSpec == ConfigInit /\ [][ConfigNext]_configVars

-----------------------------------------------------------------------------
(* Safety. *)

\* "A profile whose pointer and whose version statuses disagreed would be a bank with
\* two answers" (activate_version): the version pointed at is active, however the
\* activations of several administrators overlap.
PointerIsActive == current # Null => vstatus[current] = "active"

\* Every version that was ever put in force has its statement mapping, and no other
\* has: raising a transfer limit never stops the import of statements filed against
\* the new version or the old one.
ActivatedVersionsParse == mapped = {v \in Versions : vstatus[v] \in {"active", "retired"}}

\* Versions drafted at once are told apart by their numbers.
NumbersTellVersionsApart ==
    \A v, w \in Existing : number[v] = number[w] => v = w

-----------------------------------------------------------------------------
(* What resolution.py says and two activations at once undo. *)

\* "Two active versions with overlapping windows cannot both exist for one profile."
OneInForce == \A v, w \in Active : Overlap(v, w) => v = w

=============================================================================
