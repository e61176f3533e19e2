------------------------------- MODULE Migrate -------------------------------
(***************************************************************************)
(* Moving a deployment to another host (src/migrate.ts, the export and      *)
(* import commands of src/cli.ts): the export reads one namespace after the *)
(* other beside users of the old host, the import writes one row after the  *)
(* other into a store that the new host already serves from, may be broken  *)
(* off at any row and is then run again.  On the file driver the import and *)
(* the server are two processes that read and rewrite the same files, each  *)
(* in turns of its own (FileHash of src/kv.ts).  The new host's settings    *)
(* row is the one of BillingSettings.                                       *)
(***************************************************************************)
EXTENDS BillingSettings

CONSTANTS
    Accounts,
    OldSettings           \* the settings row of the old host, edited by hand perhaps

ASSUME MigrateAssumption ==
    /\ OldSettings \in Overrides
    /\ <<"settings", "billing">> \notin Requests

VARIABLES
    oldAccounts,   \* the accounts of the old host
    export,        \* how far the export is
    ids,           \* the accounts discoverNamespaces found
    backup,        \* the rows of the backup file
    dest,          \* where each row of the new host comes from
    step,          \* how far the import is
    todo,          \* the rows it has not come to yet
    current,       \* the row it is at
    option,        \* overwrite, dry run or neither
    copy,          \* the file as the import's write has read it
    disturbed,     \* the import and the server have met on the file of that row
    saving,        \* the row the server is saving to a file
    mine           \* that file as the server's write has read it

serverVars == <<saving, mine>>
moveVars == <<oldAccounts, export, ids, backup, dest, step, todo, current, option, copy, disturbed, serverVars>>
vars == <<bucketVars, settingVars, moveVars>>

AccountRow(a) == <<"accounts", a>>
FindingsRow(a) == <<"findings", a>>
Billing == <<"settings", "billing">>
AccountRows == {AccountRow(a) : a \in Accounts}
DestRows == AccountRows \cup {FindingsRow(a) : a \in Accounts}
Rows == DestRows \cup {Billing}
Origins == {"none", "old", "new"}
NoSave == <<>>

TypeOK ==
    /\ BucketTypeOK
    /\ SettingsTypeOK
    /\ oldAccounts \subseteq Accounts /\ ids \subseteq Accounts
    /\ export \in {"names", "accounts", "rest", "done"}
    /\ backup \in SUBSET Rows /\ todo \in SUBSET backup
    /\ dest \in [DestRows -> Origins]
    /\ step \in {"idle", "get", "set", "store"}
    /\ current \in Rows
    /\ option \in {"plain", "overwrite", "dry"}
    /\ copy \in [DestRows -> Origins] /\ mine \in [DestRows -> Origins]
    /\ disturbed \in BOOLEAN
    /\ saving \in DestRows \cup {NoSave}

Nothing == [r \in DestRows |-> "none"]

Init ==
    /\ BucketInit
    /\ SettingsInit
    /\ oldAccounts \in SUBSET Accounts
    /\ export = "names" /\ ids = {} /\ backup = {}
    /\ dest = Nothing /\ copy = Nothing
    /\ step = "idle" /\ todo = {} /\ current = Billing /\ option = "plain"
    /\ disturbed = FALSE /\ saving = NoSave /\ mine = Nothing

----------------------------------------------------------------------------
(* Mutated forms the checks substitute: each is a slip this code could have. *)

SkipNothing(found) == FALSE

----------------------------------------------------------------------------
(* The files of the new host.  A read meets what is there, or finds nothing: *)
(* the other process has truncated the file, or it cannot be read.          *)
SameFile(r, s) == r[1] = s[1] /\ (r[1] = "findings" => r[2] = s[2])
FileOf(s) == {r \in DestRows : SameFile(r, s)}
FileReads(s) == {[r \in DestRows |-> IF r \in FileOf(s) THEN dest[r] ELSE "none"], Nothing}

(* A write puts back what it has read with the row changed; one that is     *)
(* broken off leaves nothing.                                               *)
Written(s, origin, read) ==
    [r \in DestRows |-> IF r = s THEN origin ELSE IF r \in FileOf(s) THEN read[r] ELSE dest[r]]
Emptied(s) == [r \in DestRows |-> IF r \in FileOf(s) THEN "none" ELSE dest[r]]

----------------------------------------------------------------------------
(* The old host, and the export that reads it.                              *)

SignUpOld(a) ==
    /\ export # "done"
    /\ oldAccounts' = oldAccounts \cup {a}
    /\ UNCHANGED <<bucketVars, settingVars, export, ids, backup, dest, step, todo, current, option, copy, disturbed, serverVars>>

Discover ==
    /\ export = "names"
    /\ export' = "accounts"
    /\ ids' = oldAccounts
    /\ UNCHANGED <<bucketVars, settingVars, oldAccounts, backup, dest, step, todo, current, option, copy, disturbed, serverVars>>

(* The accounts are read a second time; an empty namespace is left out.     *)
ExportAccounts ==
    /\ export = "accounts"
    /\ export' = "rest"
    /\ backup' = {AccountRow(a) : a \in oldAccounts}
    /\ UNCHANGED <<bucketVars, settingVars, oldAccounts, ids, dest, step, todo, current, option, copy, disturbed, serverVars>>

ExportRest ==
    /\ export = "rest"
    /\ export' = "done"
    /\ \E found \in SUBSET ids :
          backup' = backup \cup {Billing} \cup {FindingsRow(a) : a \in found}
    /\ oldAccounts' = {} /\ ids' = {}
    /\ UNCHANGED <<bucketVars, settingVars, dest, step, todo, current, option, copy, disturbed, serverVars>>

----------------------------------------------------------------------------
(* The import.  parseBackup and checkEncryptionKey refuse before any write: *)
(* an import refused is one that does not start.                            *)

(* Namespaces come in the order discoverNamespaces listed them.             *)
Rank(r) == IF r \in AccountRows THEN 1 ELSE IF r = Billing THEN 2 ELSE 3
Upcoming == {r \in todo : \A s \in todo : Rank(r) <= Rank(s)}

StartImport ==
    /\ export = "done" /\ step = "idle" /\ backup # {}
    /\ step' = "get"
    /\ todo' = backup
    /\ option' \in {"plain", "overwrite", "dry"}
    /\ UNCHANGED <<bucketVars, settingVars, oldAccounts, export, ids, backup, dest, current, copy, disturbed, serverVars>>

(* What hash.get should find here and now, and what it may answer. *)
Present(r) ==
    IF driver = "memory" THEN FALSE
    ELSE IF r = Billing THEN row # NoRow /\ ~torn ELSE dest[r] # "none"
Finds(r) == {Present(r)} \cup IF driver = "file" THEN {FALSE} ELSE {}
Skips(found) == option # "overwrite" /\ found

(* On to the next row, or out of the command. *)
Passed(r) ==
    /\ todo' = todo \ {r}
    /\ step' = IF todo \ {r} = {} THEN "idle" ELSE "get"
    /\ option' = IF todo \ {r} = {} THEN "plain" ELSE option
    /\ current' = Billing /\ copy' = Nothing

(* The row is looked up; one that is there is skipped. *)
Get(r) ==
    /\ step = "get" /\ r \in Upcoming
    /\ \E found \in Finds(r) :
          /\ \/ (Skips(found) \/ option = "dry") /\ Passed(r)
             \/ /\ ~Skips(found) /\ option # "dry"
                /\ step' = "set" /\ current' = r
                /\ UNCHANGED <<todo, option, copy>>
          /\ disturbed' = (found # Present(r))
    /\ UNCHANGED <<bucketVars, settingVars, oldAccounts, export, ids, backup, dest, serverVars>>

(* The row lands: at once on redis, nowhere that outlives the command on    *)
(* the memory driver.                                                       *)
Set ==
    /\ step = "set" /\ driver # "file"
    /\ IF driver = "memory" THEN UNCHANGED <<dest, row, stale>>
       ELSE IF current = Billing
       THEN row' = OldSettings /\ Stored(Billing) /\ UNCHANGED dest
       ELSE dest' = [dest EXCEPT ![current] = "old"] /\ UNCHANGED <<row, stale>>
    /\ Passed(current)
    /\ UNCHANGED <<bucketVars, driver, torn, state, next, blind, oldAccounts, export, ids, backup, disturbed, serverVars>>

(* On the file driver the command is a process of its own: its write reads  *)
(* the namespace and writes all of it back, whatever the server saved in    *)
(* between.                                                                 *)
ReadFile ==
    /\ step = "set" /\ driver = "file"
    /\ step' = "store"
    /\ copy' \in FileReads(current)
    /\ disturbed' = (disturbed \/ \E r \in FileOf(current) : copy'[r] # dest[r])
    /\ torn' = (torn \/ current = Billing)
    /\ UNCHANGED <<bucketVars, driver, row, state, next, blind, stale, oldAccounts, export, ids, backup, dest, todo, current, option, serverVars>>

Store ==
    /\ step = "store"
    /\ IF current = Billing
       THEN row' = OldSettings /\ torn' = FALSE /\ Stored(Billing) /\ UNCHANGED dest
       ELSE dest' = Written(current, "old", copy) /\ UNCHANGED <<row, torn, stale>>
    /\ Passed(current)
    /\ UNCHANGED <<bucketVars, driver, state, next, blind, oldAccounts, export, ids, backup, disturbed, serverVars>>

(* The command dies between two of its steps, or a command of the store     *)
(* fails; it is run again from the first row.  In the middle of a write it  *)
(* may leave the file truncated.                                            *)
BreakOff ==
    /\ step \in {"get", "set", "store"}
    /\ \/ UNCHANGED <<dest, row>>
       \/ /\ step = "store"
          /\ dest' = Emptied(current)
          /\ row' = IF current = Billing THEN NoRow ELSE row
    /\ torn' = (torn /\ ~(step = "store" /\ current = Billing))
    /\ disturbed' = (disturbed \/ dest' # dest)
    /\ step' = "idle" /\ todo' = {} /\ option' = "plain" /\ current' = Billing /\ copy' = Nothing
    /\ UNCHANGED <<bucketVars, driver, state, next, blind, stale, oldAccounts, export, ids, backup, serverVars>>

----------------------------------------------------------------------------
(* The new host: an account that is there can be used, which rewrites its   *)
(* row and records findings; ids are random, so no account that is only in  *)
(* the backup can come to be here by a sign-up.                             *)
Uses(r) == \E a \in Accounts : dest[AccountRow(a)] # "none" /\ r \in {AccountRow(a), FindingsRow(a)}

Use(r) ==
    /\ Uses(r) /\ driver # "file"
    /\ dest' = [dest EXCEPT ![r] = "new"]
    /\ UNCHANGED <<bucketVars, settingVars, oldAccounts, export, ids, backup, step, todo, current, option, copy, disturbed, serverVars>>

(* On the file driver the server's save reads the file first.  Bound: one   *)
(* save at a time, also of two files.                                       *)
UseReads(r) ==
    /\ Uses(r) /\ driver = "file" /\ saving = NoSave
    /\ saving' = r
    /\ mine' \in FileReads(r)
    /\ UNCHANGED <<bucketVars, settingVars, oldAccounts, export, ids, backup, dest, step, todo, current, option, copy, disturbed>>

(* It is written, fails at once, or fails half way. *)
UseStores ==
    /\ saving # NoSave
    /\ dest' \in {Written(saving, "new", mine), dest, Emptied(saving)}
    /\ disturbed' = (disturbed \/ (dest' # dest /\ SameFile(saving, current)))
    /\ saving' = NoSave /\ mine' = Nothing
    /\ UNCHANGED <<bucketVars, settingVars, oldAccounts, export, ids, backup, step, todo, current, option, copy>>

Used == (\E r \in DestRows : Use(r) \/ UseReads(r)) \/ UseStores

----------------------------------------------------------------------------
Import == StartImport \/ (\E r \in Rows : Get(r)) \/ Set \/ ReadFile \/ Store \/ BreakOff

Serve(q) ==
    \/ Admit(q) /\ UNCHANGED moveVars
    \/ Handle(q) /\ UNCHANGED <<bucketVars, moveVars>>

Clock == (Tick \/ StepBack) /\ UNCHANGED <<settingVars, moveVars>>

Next ==
    \/ \E a \in Accounts : SignUpOld(a)
    \/ Used
    \/ Discover \/ ExportAccounts \/ ExportRest
    \/ Import
    \/ \E q \in Requests : Serve(q)
    \/ Clock

Spec == Init /\ [][Next]_vars

----------------------------------------------------------------------------
(* Without the overwrite option no import takes an account that has been    *)
(* used on the new host back to what the backup holds, nor drops it,        *)
(* however often it is broken off and run again (importData,                *)
(* ImportOptions.overwrite: "cannot roll back an account that has since     *)
(* been used").  On redis that is all there is to it.  On the file driver   *)
(* it holds unless the two processes meet on the file: a read of the import *)
(* finds it truncated or fails, the server saves to it between the import's *)
(* look-up of the row and its write, or that write is broken off.           *)
ImportMoves == step' # step \/ todo' # todo
NoRollback ==
    [][\A a \in Accounts :
          dest[AccountRow(a)] = "new" /\ dest'[AccountRow(a)] # "new" /\ ImportMoves =>
              option = "overwrite" \/ (driver = "file" /\ disturbed')]_<<dest, step, todo>>

(* The strengthening it needs: as long as nobody has met the import on the  *)
(* file, the account it is about to write is not there, so that nobody can  *)
(* have used it, and the file is as it has read it.                         *)
Undisturbed ==
    /\ disturbed => driver = "file"
    /\ step = "store" => driver = "file"
    /\ saving # NoSave => driver = "file"
    /\ step \in {"set", "store"} /\ option # "overwrite" /\ current \in AccountRows /\ ~disturbed =>
          /\ dest[current] = "none" \/ driver = "memory"
          /\ step = "store" => \A r \in FileOf(current) : copy[r] = dest[r]
============================================================================
