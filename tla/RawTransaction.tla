--------------------------- MODULE RawTransaction ----------------------------
(***************************************************************************)
(* raw_transaction.rs: a wallet signs the RLP list of a transfer, and      *)
(* decode_legacy takes the signed list apart, encodes the signed part      *)
(* again and recovers the sender from it.  The code's bytes are the        *)
(* numbers below 256 with prefixes at 0x80, 0xb7, 0xc0 and 0xf7; here the  *)
(* widths of the prefix space are constants, so that the boundaries are    *)
(* met by short strings.  A signature is what it is over and by whom; its  *)
(* two scalars are the numbers that stand for it in the list.              *)
(***************************************************************************)
EXTENDS Naturals, Sequences, SequencesExt

CONSTANTS
    Single,      \* 128: a byte below it stands for itself
    Short,       \* 55: the longest payload with a one-byte prefix
    Widths,      \* 8: the longest length field, and the bytes of a u64
    AddressLen,  \* 20: the bytes of an address
    ScalarLen,   \* 32: the bytes of a signature scalar
    Parity,      \* 35: the v of chain 0
    ChainId,     \* the chain of this node
    Numbers,     \* numbers that occur in transactions
    Chains,      \* chains that transactions are signed for
    Scalars,     \* scalars of signatures
    Addresses,   \* receivers: byte strings
    Trailing,    \* bytes that may follow a list
    Signer,      \* whose key signs
    Stranger,    \* what recovery gives for anything that was not signed
    Error,
    None

ListBase == Single + Short + 1 + Widths   \* 0xc0
Base == 2 * (Short + 1 + Widths) + Single \* 256

VARIABLES
    tx,       \* the transaction the wallet signs
    signed,   \* its signature: the list that was signed, and the scalars
    raw,      \* the encoded, signed transaction
    extra,    \* a byte has been appended to it
    decoded   \* what decode_legacy makes of it

vars == <<tx, signed, raw, extra, decoded>>

\* to_be_bytes without the leading zeros; zero has no byte at all.
BigEndian[n \in Nat] ==
    IF n = 0 THEN <<>> ELSE Append(BigEndian[n \div Base], n % Base)

\* The fold of value_u64, value_u128 and read_length.
Value(bytes) == FoldLeft(LAMBDA acc, byte : (acc * Base) + byte, 0, bytes)

\* long_base is short_base + 55.
EncodeLength(length, base) ==
    IF length <= Short THEN <<base + length>>
    ELSE <<base + Short + Len(BigEndian[length])>> \o BigEndian[length]

EverySingleAsItself(bytes) ==
    IF Len(bytes) = 1 THEN bytes
    ELSE EncodeLength(Len(bytes), Single) \o bytes

EncodeBytes(bytes) ==
    IF Len(bytes) = 1 /\ bytes[1] < Single THEN bytes
    ELSE EncodeLength(Len(bytes), Single) \o bytes

EncodeList(items) ==
    LET payload == FlattenSeq([i \in DOMAIN items |-> EncodeBytes(items[i])])
    IN EncodeLength(Len(payload), ListBase) \o payload

\* The head of an item: is it a list, where its payload begins (counted from
\* 0) and how long it is.  A length field that is cut off is an Error.
ItemHead(input) ==
    LET prefix == input[1]
        Long(isList, width) ==
            IF 1 + width > Len(input) THEN Error
            ELSE [list |-> isList, start |-> 1 + width,
                  length |-> Value(SubSeq(input, 2, 1 + width))]
    IN CASE prefix < Single -> [list |-> FALSE, start |-> 0, length |-> 1]
         [] prefix \in Single..Single + Short ->
              [list |-> FALSE, start |-> 1, length |-> prefix - Single]
         [] prefix \in Single + Short + 1..ListBase - 1 ->
              Long(FALSE, prefix - (Single + Short))
         [] prefix \in ListBase..ListBase + Short ->
              [list |-> TRUE, start |-> 1, length |-> prefix - ListBase]
         [] OTHER -> Long(TRUE, prefix - (ListBase + Short))

\* decode_item: the payload and the number of bytes used.
DecodeItem(input, requireList) ==
    IF input = <<>> THEN Error
    ELSE LET h == ItemHead(input) IN
         IF h = Error THEN Error
         ELSE IF h.list # requireList \/ h.start + h.length > Len(input)
         THEN Error
         ELSE [value |-> SubSeq(input, h.start + 1, h.start + h.length),
               size |-> h.start + h.length]

\* The loop of decode_list over its payload.
RECURSIVE DecodeFields(_)
DecodeFields(payload) ==
    IF payload = <<>> THEN <<>>
    ELSE LET item == DecodeItem(payload, FALSE) IN
         IF item = Error THEN Error
         ELSE LET rest == DecodeFields(
                            SubSeq(payload, item.size + 1, Len(payload))) IN
              IF rest = Error THEN Error ELSE <<item.value>> \o rest

DecodeList(input) ==
    LET whole == DecodeItem(input, TRUE) IN
    IF whole = Error THEN Error
    ELSE IF whole.size # Len(input) THEN Error
    ELSE DecodeFields(whole.value)

ValueOf(bytes, width) == IF Len(bytes) > width THEN Error ELSE Value(bytes)

\* The list that is hashed and signed.
Signing(nonce, gasPrice, gasLimit, to, amount, chainId) ==
    EncodeList(<<BigEndian[nonce], BigEndian[gasPrice], BigEndian[gasLimit],
                 to, BigEndian[amount], <<>>, BigEndian[chainId],
                 <<>>, <<>>>>)

\* recover_from_prehash: the signer, of what was signed and with the scalars
\* and the recovery bit of that signature, and a stranger otherwise.
Recover(list, r, s, parity) ==
    IF signed = [list |-> list, r |-> r, s |-> s, parity |-> parity]
    THEN Signer ELSE Stranger

SigningOf(f, chainId) ==
    Signing(Value(f[1]), Value(f[2]), Value(f[3]), f[4], Value(f[5]),
            chainId)

\* The fields are in order: numbers in their widths, a receiver, no data.
WellFormed(f) ==
    /\ Len(f) = 9
    /\ \A i \in {1, 2, 3, 7} : ValueOf(f[i], Widths) # Error
    /\ Len(f[4]) = AddressLen
    /\ ValueOf(f[5], 2 * Widths) # Error
    /\ f[6] = <<>>
    /\ Value(f[7]) >= Parity
    /\ \A i \in {8, 9} : Len(f[i]) <= ScalarLen

DecodeLegacy(input) ==
    LET f == DecodeList(input) IN
    IF f = Error THEN Error
    ELSE IF ~WellFormed(f) THEN Error
    ELSE LET v == Value(f[7]) - Parity IN
         IF v \div 2 # ChainId THEN Error
         ELSE [from |-> Recover(SigningOf(f, v \div 2), Value(f[8]),
                                Value(f[9]), v % 2),
               to |-> f[4], amount |-> Value(f[5]),
               fee |-> Value(f[2]) * Value(f[3]), nonce |-> Value(f[1])]

----------------------------------------------------------------------------
WalletTransactions ==
    [nonce : Numbers, gasPrice : Numbers, gasLimit : Numbers,
     to : Addresses, amount : Numbers, chain : Chains]

Init ==
    /\ tx \in WalletTransactions
    /\ signed = None /\ raw = None /\ extra = FALSE /\ decoded = None

\* The wallet signs the transaction and encodes it with its signature.
Sign ==
    /\ raw = None
    /\ \E r, s \in Scalars, parity \in {0, 1} :
         /\ signed' = [list |-> Signing(tx.nonce, tx.gasPrice, tx.gasLimit,
                                        tx.to, tx.amount, tx.chain),
                       r |-> r, s |-> s, parity |-> parity]
         /\ raw' = EncodeList(
              <<BigEndian[tx.nonce], BigEndian[tx.gasPrice],
                BigEndian[tx.gasLimit], tx.to, BigEndian[tx.amount], <<>>,
                BigEndian[Parity + (2 * tx.chain) + parity],
                BigEndian[r], BigEndian[s]>>)
    /\ UNCHANGED <<tx, extra, decoded>>

\* A byte is added on the way.
AppendByte ==
    /\ raw # None /\ ~extra /\ decoded = None
    /\ \E b \in Trailing : raw' = Append(raw, b)
    /\ extra' = TRUE
    /\ UNCHANGED <<tx, signed, decoded>>

Decode ==
    /\ raw # None /\ decoded = None
    /\ decoded' = DecodeLegacy(raw)
    /\ UNCHANGED <<tx, signed, raw, extra>>

Next == Sign \/ AppendByte \/ Decode

Spec == Init /\ [][Next]_vars

----------------------------------------------------------------------------
\* decode_legacy gives the ledger exactly the transfer that the wallet
\* signed, from the wallet that signed it, whatever lengths its numbers
\* have: what it encodes again to recover the sender is what was signed.
DecodesAsSigned ==
    decoded # None /\ ~extra /\ tx.chain = ChainId =>
        decoded = [from |-> Signer, to |-> tx.to, amount |-> tx.amount,
                   fee |-> tx.gasPrice * tx.gasLimit, nonce |-> tx.nonce]

\* Nothing else becomes a transfer: neither a transaction signed for another
\* chain, nor a list with a byte after its end.
NothingElseDecodes ==
    decoded \notin {None, Error} => ~extra /\ tx.chain = ChainId
=============================================================================
