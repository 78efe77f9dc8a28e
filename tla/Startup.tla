------------------------------- MODULE Startup -------------------------------
(***************************************************************************)
(* How a Centauri process gets its certificate suppliers: run and          *)
(* certProvider in cmd/centauri/main.go, certificate.NewProvider and       *)
(* NewLegoSupplier, which loads the ACME account from the user data file   *)
(* or registers one and saves it.  Processes follow each other, may die at *)
(* any step, and leave the file behind.  The frontend uses certificates.   *)
(*                                                                         *)
(* An account is the pair of its key and the ACME directory that knows it; *)
(* keys are numbered by the starts of the process.                         *)
(***************************************************************************)
EXTENDS Lists

CONSTANTS
  Directories,  \* ACME directories the process may be configured with
  Preferences,  \* preferences of suppliers it may be configured with
  MaxStarts     \* bound: number of starts

ASSUME StartupAssumption ==
  /\ MaxStarts \in Nat
  /\ Preferences \subseteq Seq({"lego", "selfsigned"})

VARIABLES
  starts,     \* number of starts so far
  step,       \* control state of the start
  directory,  \* the directory of this process
  preference, \* its preference of suppliers
  user,       \* acmeUser: key and account
  suppliers,  \* what NewProvider passes to the manager
  disk,       \* the user data file: Absent, Torn or an account
  accounts    \* the accounts that ACME servers know

optionVars  == <<starts, directory, preference>>
startupVars == <<optionVars, step, user, suppliers, disk, accounts>>

Accounts == (1..MaxStarts) \X Directories

\* No account, no file, and the contents of a file that does not decode.
None   == <<0, "none">>
Absent == <<0, "absent">>
Torn   == <<0, "torn">>

NoUser == [key |-> 0, account |-> None]

StartupTypeOK ==
  /\ starts \in 0..MaxStarts
  /\ step \in {"down", "store", "check", "load", "client", "register", "open", "write", "ready"}
  /\ directory \in Directories /\ preference \in Preferences
  /\ user \in [key : 0..MaxStarts, account : Accounts \cup {None}]
  /\ suppliers \subseteq {"lego", "selfsigned"}
  /\ disk \in Accounts \cup {Absent, Torn}
  /\ accounts \subseteq Accounts

StartupInit ==
  /\ starts = 0 /\ step = "down"
  /\ directory \in Directories /\ preference \in Preferences
  /\ user = NoUser /\ suppliers = {}
  /\ disk = Absent /\ accounts = {}

-----------------------------------------------------------------------------
(***************************************************************************)
(* A process starts, perhaps with other options, and may die at any time.  *)
(***************************************************************************)
Boot ==
  /\ step \in {"down", "ready"}
  /\ starts < MaxStarts
  /\ starts' = starts + 1
  /\ step' = "store"
  /\ directory' \in Directories /\ preference' \in Preferences
  /\ user' = NoUser /\ suppliers' = {}
  /\ UNCHANGED <<disk, accounts>>

Crash ==
  /\ step # "down"
  /\ step' = "down"
  /\ UNCHANGED <<optionVars, user, suppliers, disk, accounts>>

\* Mutant: an error of one supplier leaves none.
WithoutAny ==
  /\ step' = "ready"
  /\ suppliers' = {}
  /\ user' = NoUser

\* NewLegoSupplier fails: NewProvider goes on without it.
WithoutLego ==
  /\ step' = "ready"
  /\ suppliers' = {"selfsigned"}
  /\ user' = NoUser

WithLego ==
  /\ step' = "ready"
  /\ suppliers' = {"selfsigned", "lego"}
  /\ UNCHANGED user

GoOn(to) ==
  /\ step' = to
  /\ UNCHANGED suppliers

\* createCertificateStore; its errors and those of other options end the
\* process.  Without a DNS provider no ACME supplier is made.
OpenStore ==
  /\ step = "store"
  /\ \/ \E to \in {"down", "check"} : GoOn(to) /\ UNCHANGED user
     \/ WithoutLego
  /\ UNCHANGED <<optionVars, disk, accounts>>

\* canWriteTo
CanWriteTo ==
  /\ step = "check"
  /\ WithoutLego \/ (GoOn("load") /\ UNCHANGED user)
  /\ UNCHANGED <<optionVars, disk, accounts>>

\* Mutant: a file that cannot be parsed is like no file.
LoadOrCreate ==
  /\ step = "load"
  /\ GoOn("client")
  /\ user' = IF disk \in Accounts THEN [key |-> disk[1], account |-> disk] ELSE [NoUser EXCEPT !.key = starts]
  /\ UNCHANGED <<optionVars, disk, accounts>>

\* acmeUser.load: without a file there is a new key and no account; it may
\* also fail to read or parse the file.
Load ==
  /\ step = "load"
  /\ \/ WithoutLego
     \/ /\ disk # Torn
        /\ GoOn("client")
        /\ user' = IF disk = Absent THEN [NoUser EXCEPT !.key = starts]
                   ELSE [key |-> disk[1], account |-> disk]
  /\ UNCHANGED <<optionVars, disk, accounts>>

\* lego.NewClient asks the ACME server; registerAndSave follows if there is
\* no account.
NewClient ==
  /\ step = "client"
  /\ \/ WithoutLego
     \/ user.account # None /\ WithLego
     \/ user.account = None /\ GoOn("register") /\ UNCHANGED user
  /\ UNCHANGED <<optionVars, disk, accounts>>

\* registerAndSave, the registration: an error may hide that it succeeded.
Register ==
  /\ step = "register"
  /\ LET new == <<user.key, directory>> IN
       \/ /\ accounts' = accounts \cup {new}
          /\ user' = [user EXCEPT !.account = new]
          /\ GoOn("open")
       \/ /\ accounts' \in {accounts, accounts \cup {new}}
          /\ WithoutLego
  /\ UNCHANGED <<optionVars, disk>>

\* os.WriteFile creates or truncates the file ...
OpenFile ==
  /\ step = "open"
  /\ \/ disk' = Torn /\ GoOn("write") /\ UNCHANGED user
     \/ UNCHANGED disk /\ WithoutLego
  /\ UNCHANGED <<optionVars, accounts>>

\* Mutant: the error of os.WriteFile is ignored.
WriteAnyway ==
  /\ step = "write"
  /\ disk' \in {user.account, disk}
  /\ WithLego
  /\ UNCHANGED <<optionVars, accounts>>

\* ... and writes the account to it.
WriteFile ==
  /\ step = "write"
  /\ \/ disk' = user.account /\ WithLego
     \/ UNCHANGED disk /\ WithoutLego
  /\ UNCHANGED <<optionVars, accounts>>

StartupStep ==
  OpenStore \/ CanWriteTo \/ Load \/ NewClient \/ Register \/ OpenFile \/ WriteFile

StartupNext == Boot \/ Crash \/ StartupStep

StartupSpec == StartupInit /\ [][StartupNext]_startupVars

\* Every step of a start ends, if only by a timeout.
FairStartup == StartupSpec /\ WF_startupVars(StartupStep)

(***************************************************************************)
(* Manager.supplier: the supplier a route asks for, "" for none, or the    *)
(* first one of the preference that is there; "" if there is none.         *)
(***************************************************************************)
Supplier(preferred) ==
  LET found == SelectSeq(IF preferred # "" THEN <<preferred>> ELSE preference,
                         LAMBDA s : s \in suppliers)
  IN IF found = <<>> THEN "" ELSE Head(found)

-----------------------------------------------------------------------------
(***************************************************************************)
(* A process that can order certificates, by preference or because a route *)
(* asks for it, does so with an account that an ACME server knows and that *)
(* the next process will find on disk, whatever failed or died before      *)
(* (NewLegoSupplier, registerAndSave).                                     *)
(***************************************************************************)
OrdersWithSavedAccount ==
  step = "ready" /\ "lego" \in suppliers =>
    /\ disk = user.account
    /\ user.account \in accounts

(***************************************************************************)
(* A user data file is kept: once it exists only the process that made it  *)
(* writes it, and nothing more is registered.  What is left of an          *)
(* interrupted save is not taken for a missing file (acmeUser.load).       *)
(***************************************************************************)
AccountKept ==
  [][disk # Absent =>
       /\ accounts' = accounts
       /\ disk' # disk => step = "write" /\ disk' \in accounts]_startupVars

(***************************************************************************)
(* Every start comes to an end, even if the ACME server or the disk fail,  *)
(* and a process that serves has a supplier if self-signed certificates    *)
(* are among its preferences (the comment on certProvider: without the     *)
(* lego supplier "only the selfsigned supplier is used").                  *)
(***************************************************************************)
StartCompletes ==
  step = "store" ~> (step = "down" \/ (step = "ready" /\ ("selfsigned" \in ToSet(preference) => Supplier("") # "")))
=============================================================================
