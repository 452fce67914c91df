----------------------------- MODULE NodeWallet ------------------------------
(***************************************************************************)
(* The wallet that holds a node's rewards: node_wallet_keystore.rs and the *)
(* reward commands of main.rs.  The wallet is created on first use, opened *)
(* with the password file, and re-encrypted with the password of a file    *)
(* the operator provides.  Every file operation may be the last before the *)
(* process dies, and may fail.                                             *)
(*                                                                         *)
(* A keystore is [wallet, password]; the temporary file that is verified   *)
(* and renamed over it makes its replacement one step.  None is no file,   *)
(* Torn a password file whose write was cut.  A random wallet is a number  *)
(* that was not used before.                                               *)
(***************************************************************************)
EXTENDS Naturals

CONSTANTS
    Passwords,
    None,
    Torn,
    MaxWallets   \* bound on the wallets created, for model checking

VARIABLES
    keystore,       \* node_wallet.keystore
    passwordFile,   \* its password file
    newFile,        \* the operator's --new-password-file
    pc,             \* "idle", "create", "created", "change", "changed"
    wallets,        \* the number of wallets created
    shown,          \* the wallet whose address was given out, a history
    answer          \* what the last command returned: None, "ok" or "err"

vars == <<keystore, passwordFile, newFile, pc, wallets, shown, answer>>

Init ==
    /\ keystore = None /\ passwordFile = None /\ newFile = None
    /\ pc = "idle" /\ wallets = 0 /\ shown = None /\ answer = None

\* NodeWalletKeystore::load succeeds.
Opens(k, p) == k # None /\ k.password = p

\* load_or_create_default of an existing wallet, for reward address or send.
Load ==
    /\ pc = "idle" /\ keystore # None
    /\ IF Opens(keystore, passwordFile)
       THEN answer' = "ok" /\ shown' = keystore.wallet
       ELSE answer' = "err" /\ UNCHANGED shown
    /\ UNCHANGED <<keystore, passwordFile, newFile, pc, wallets>>

\* Refuses: the password file is left but the keystore is gone.
Refuse ==
    /\ pc = "idle" /\ keystore = None /\ passwordFile # None
    /\ answer' = "err"
    /\ UNCHANGED <<keystore, passwordFile, newFile, pc, wallets, shown>>

\* A new wallet: write_private_new of a random password.
BeginCreate ==
    /\ pc = "idle" /\ keystore = None /\ passwordFile = None
    /\ wallets < MaxWallets
    /\ wallets' = wallets + 1
    /\ passwordFile' = Torn
    /\ pc' = "create" /\ answer' = None
    /\ UNCHANGED <<keystore, newFile, shown>>

WritePassword(p) ==
    /\ pc = "create"
    /\ passwordFile' = p
    /\ pc' = "created"
    /\ UNCHANGED <<keystore, newFile, wallets, shown, answer>>

\* store, and the address is returned.
Store ==
    /\ pc = "created"
    /\ keystore' = [wallet |-> wallets, password |-> passwordFile]
    /\ pc' = "idle" /\ shown' = wallets /\ answer' = "ok"
    /\ UNCHANGED <<passwordFile, newFile, wallets>>

\* It fails: the password file is removed again.
StoreFails ==
    /\ pc = "created"
    /\ passwordFile' = None
    /\ pc' = "idle" /\ answer' = "err"
    /\ UNCHANGED <<keystore, newFile, wallets, shown>>

-----------------------------------------------------------------------------
\* The operator writes a new password, unless the last change is unfinished.
ProvidePassword(p) ==
    /\ pc = "idle" /\ Opens(keystore, passwordFile)
    /\ newFile' = p
    /\ UNCHANGED <<keystore, passwordFile, pc, wallets, shown, answer>>

\* reward change-password: both files are read, the keystore is opened.
BeginChange ==
    /\ pc = "idle" /\ Opens(keystore, passwordFile) /\ newFile # None
    /\ pc' = "change" /\ answer' = None
    /\ UNCHANGED <<keystore, passwordFile, newFile, wallets, shown>>

ChangeRefused ==
    /\ pc = "idle" /\ keystore # None /\ newFile # None
    /\ ~Opens(keystore, passwordFile)
    /\ answer' = "err"
    /\ UNCHANGED <<keystore, passwordFile, newFile, pc, wallets, shown>>

\* change_password of the keystore.
Reencrypt ==
    /\ pc = "change"
    /\ keystore' = [keystore EXCEPT !.password = newFile]
    /\ pc' = "changed"
    /\ UNCHANGED <<passwordFile, newFile, wallets, shown, answer>>

\* atomic_private_write of the password file.
ReplacePassword ==
    /\ pc = "changed"
    /\ passwordFile' = newFile
    /\ pc' = "idle" /\ answer' = "ok"
    /\ UNCHANGED <<keystore, newFile, wallets, shown>>


\* It fails: the keystore is changed back.
ReplaceFails ==
    /\ pc = "changed"
    /\ keystore' = [keystore EXCEPT !.password = passwordFile]
    /\ pc' = "idle" /\ answer' = "err"
    /\ UNCHANGED <<passwordFile, newFile, wallets, shown>>

Crash ==
    /\ pc # "idle"
    /\ pc' = "idle" /\ answer' = None
    /\ UNCHANGED <<keystore, passwordFile, newFile, wallets, shown>>

Next ==
    \/ Load \/ Refuse \/ BeginCreate \/ Store \/ StoreFails
    \/ \E p \in Passwords : WritePassword(p) \/ ProvidePassword(p)
    \/ BeginChange \/ ChangeRefused \/ Reencrypt
    \/ ReplacePassword \/ ReplaceFails
    \/ Crash

Spec == Init /\ [][Next]_vars

-----------------------------------------------------------------------------
(* An address that was given out stays the node's: rewards sent to it are    *)
(* never stranded by a new wallet, whatever step the process died in.        *)
AddressIsKept == shown # None => keystore # None /\ keystore.wallet = shown

(* The keystore can always be opened by hand: its password is in one of the  *)
(* two files, also after a crash between the two replacements.               *)
PasswordIsKept ==
    keystore # None => keystore.password \in {passwordFile, newFile}

(* A command that returned, with or without an error, left the two files in  *)
(* agreement: the error path of the password change takes it back.           *)
AgreeAfterAnswer ==
    [][pc # "idle" /\ answer' # None /\ keystore' # None =>
           Opens(keystore', passwordFile')]_vars
=============================================================================
