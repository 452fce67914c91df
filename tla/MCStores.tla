------------------------------ MODULE MCStores -------------------------------
(***************************************************************************)
(* What a node keeps on disk: the embedded database, and beside it the     *)
(* block archive, the files written when a block becomes final, the node's *)
(* wallet, the keys and backups of an installation and the executable that *)
(* the updater replaces.  They share no variable; focus says which of them *)
(* takes the steps of a behaviour.                                         *)
(***************************************************************************)
EXTENDS EmbeddedDb

CONSTANTS
    Focuses,
    current, tx1, other, old, new,
    offence1, offence2,
    p1, p2, p3, Torn

VARIABLES
    focus,
    active, period, checkpoints, backups, leftovers, annual, stored,
    archivePc, doomed, archiveCrashes,
    tip, db, mirror, certificates, cut, rpcTip, published, evidence,
    storagePc, seen, storageCrashes, arrivals,
    keystore, passwordFile, newFile, walletPc, wallets, shown, answer,
    validatorKey, nodeKey, ledger, marker, keyBackups, installPc, server, made,
    first, lost,
    program, next, previous, running, target, updatePc, offered, ran

-----------------------------------------------------------------------------
\* EmbeddedDb: two keys of the scanned prefix and one outside, with an image
\* of version 1 that holds one of them.
DbKeys == {current, tx1, other}
DbKeyOrder == <<current, other, tx1>>
DbLegacy == (current :> old) @@ [k \in DbKeys |-> None]

\* Archive: three blocks in one month, so that it is split into parts, one in
\* the next month and two, two years later, when the first year is compacted.
A == INSTANCE Archive WITH
        Months <- <<0, 0, 0, 1, 24, 24>>, MaxActive <- 2,
        MayCrash <- {"append"}, MaxCrashes <- 2,
        pc <- archivePc, crashes <- archiveCrashes

N == INSTANCE NodeStorage WITH
        Offences <- {offence1, offence2}, MaxHeight <- 3, MaxCrashes <- 2,
        MaxEvidence <- 3, pc <- storagePc, crashes <- storageCrashes

W == INSTANCE NodeWallet WITH
        Passwords <- {p1, p2, p3}, MaxWallets <- 3, pc <- walletPc

I == INSTANCE Installation WITH
        MaxKeys <- 5, MaxBackups <- 2, MaxLosses <- 1,
        backups <- keyBackups, pc <- installPc

\* Updater: versions whose order is not that of their parts or their lengths,
\* two of them equal.
U == INSTANCE Updater WITH
        Versions <- {<<0, 9>>, <<0, 9, 0>>, <<0, 10>>, <<0, 10, 1>>,
                     <<1, 0, 2>>},
        First <- <<0, 9>>, current <- program, published <- offered,
        pc <- updatePc

-----------------------------------------------------------------------------
archiveVars ==
    <<active, period, checkpoints, backups, leftovers, annual, stored,
      archivePc, doomed, archiveCrashes>>
storageVars ==
    <<tip, db, mirror, certificates, cut, rpcTip, published, evidence,
      storagePc, seen, storageCrashes, arrivals>>
walletVars ==
    <<keystore, passwordFile, newFile, walletPc, wallets, shown, answer>>
installVars ==
    <<validatorKey, nodeKey, ledger, marker, keyBackups, installPc, server,
      made, first, lost>>
updateVars ==
    <<program, next, previous, running, target, updatePc, offered, ran>>
suiteVars ==
    <<focus, vars, archiveVars, storageVars, walletVars, installVars,
      updateVars>>

SuiteInit ==
    /\ focus \in Focuses
    /\ Init /\ A!Init /\ N!Init /\ W!Init /\ I!Init /\ U!Init

DatabaseStep ==
    /\ focus = "database" /\ Next
    /\ UNCHANGED <<focus, archiveVars, storageVars, walletVars, installVars,
                   updateVars>>

ArchiveStep ==
    /\ focus = "archive" /\ A!Next
    /\ UNCHANGED <<focus, vars, storageVars, walletVars, installVars,
                   updateVars>>

StorageStep ==
    /\ focus = "storage" /\ N!Next
    /\ UNCHANGED <<focus, vars, archiveVars, walletVars, installVars,
                   updateVars>>

WalletStep ==
    /\ focus = "wallet" /\ W!Next
    /\ UNCHANGED <<focus, vars, archiveVars, storageVars, installVars,
                   updateVars>>

InstallStep ==
    /\ focus = "install" /\ I!Next
    /\ UNCHANGED <<focus, vars, archiveVars, storageVars, walletVars,
                   updateVars>>

UpdateStep ==
    /\ focus = "update" /\ U!Next
    /\ UNCHANGED <<focus, vars, archiveVars, storageVars, walletVars,
                   installVars>>

SuiteNext ==
    \/ DatabaseStep \/ ArchiveStep \/ StorageStep
    \/ WalletStep \/ InstallStep \/ UpdateStep

SuiteSpec == SuiteInit /\ [][SuiteNext]_suiteVars

-----------------------------------------------------------------------------
(* append_finalized, rollover and compact_old_backups keep every block whose *)
(* state was committed in the active file, a monthly or a yearly backup; a   *)
(* block leaves the active file only after a checkpoint that includes it,    *)
(* and that file stays within max_active_bytes, also when a crash makes it   *)
(* hold a block twice.                                                       *)
BlocksAreKept ==
    focus = "archive" =>
        A!EveryBlockKept /\ A!CheckpointCovers /\ A!ActiveBounded



=============================================================================
