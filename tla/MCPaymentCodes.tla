---------------------------- MODULE MCPaymentCodes ----------------------------
(* PaymentCodes against the standards of its formats, over bounded inputs:   *)
(* the encoders of BIP-173 and BIP-350, which the wallet has none of, and    *)
(* what a typing error does to a code.                                       *)
EXTENDS PaymentCodes

Five(n, k) == [i \in 1..k |-> (n \div 32^(k - i)) % 32]
Checksum(hrp, words, e) ==
    Five(polymod(hrpExpand(hrp) \o words \o <<0, 0, 0, 0, 0, 0>>) ^^ ChecksumConst[e], 6)
Encode(hrp, words, e) == [hrp |-> hrp, data |-> words \o Checksum(hrp, words, e), mixed |-> FALSE]

\* BIP-173's regrouping: a sequence of numbers of some bits as one of others.
Bits(seq, w) == FlattenSeq([i \in DOMAIN seq |-> [b \in 1..w |-> (seq[i] \div 2^(w - b)) % 2]])
Group(bits, w) ==
    LET all == bits \o [i \in 1..((w - (Len(bits) % w)) % w) |-> 0]
    IN  [i \in 1..(Len(all) \div w) |->
            FoldLeft(LAMBDA n, b : 2 * n + b, 0, SubSeq(all, w * (i - 1) + 1, w * i))]
ToWords(bytes) == Group(Bits(bytes, 8), 5)

Hrps == {<<98, 99>>, <<97>>}
Payloads == {<<>>, <<0>>, <<31>>, <<7, 16>>}
Codes == {Encode(h, w, e) : h \in Hrps, w \in Payloads, e \in DOMAIN ChecksumConst}
Substitutions(code) ==
    {[code EXCEPT !.data[i] = c] : i \in DOMAIN code.data, c \in {0, 1, 2, 5, 16, 31}} \ {code}
Transpositions(code) ==
    {[code EXCEPT !.data[i] = code.data[i + 1], !.data[i + 1] = code.data[i]] :
        i \in 1..(Len(code.data) - 1)} \ {code}

\* A code decodes to what was encoded (bech32.ts), in one of the encodings only;
\* the shortest valid codes of the two standards (a12uel5l, a1lqfn3a) decode.
Vector(data) == bech32Decode([hrp |-> <<97>>, data |-> data, mixed |-> FALSE], 90)
ASSUME CodesDecode ==
    /\ Vector(<<10, 28, 25, 31, 20, 31>>) = [hrp |-> <<97>>, words |-> <<>>, encoding |-> "bech32"]
    /\ Vector(<<31, 0, 9, 19, 17, 29>>) = [hrp |-> <<97>>, words |-> <<>>, encoding |-> "bech32m"]
    /\ \A h \in Hrps, w \in Payloads, e \in DOMAIN ChecksumConst :
        bech32Decode(Encode(h, w, e), 90) = [hrp |-> h, words |-> w, encoding |-> e]

\* A character typed wrong, or two that are swapped, is noticed (bech32.ts): no
\* such code is of the other encoding either.
ASSUME MistypedIsRefused ==
    \A code \in Codes : \A bad \in Substitutions(code) \cup Transpositions(code) :
        bech32Decode(bad, 90) = Null

\* The bytes of a witness program come back, and each has one spelling only:
\* words that are not what the bytes are spelled with are refused (bech32.ts).
ASSUME BytesComeBack ==
    /\ \A n \in 0..3 : \A bytes \in [1..n -> {0, 1, 127, 128, 255}] :
           bech32WordsToBytes(ToWords(bytes)) = bytes
    /\ \A n \in 0..3 : \A words \in [1..n -> {0, 1, 2, 15, 16, 31}] :
           LET whole == SubSeq(Group(Bits(words, 5), 8), 1, (5 * n) \div 8)
           IN  bech32WordsToBytes(words) = IF ToWords(whole) = words THEN whole ELSE Null

\* The program of a version-0 address has 20 or 32 bytes and the old checksum,
\* that of a later one two to forty and the new one (BIP-350; address.ts).
Segwit(hrp, version, n, e) ==
    [form |-> "bech32", code |-> Encode(hrp, <<version>> \o ToWords([i \in 1..n |-> i]), e)]
Bc == <<98, 99>>
ASSUME SegwitRules ==
    /\ \A n \in {1, 2, 19, 20, 32, 40, 41}, e \in DOMAIN ChecksumConst :
           /\ (bitcoinNetworkOf(Segwit(Bc, 0, n, e)) = "mainnet") = (n \in {20, 32} /\ e = "bech32")
           /\ (bitcoinNetworkOf(Segwit(Bc, 1, n, e)) = "mainnet") = (n \in 2..40 /\ e = "bech32m")
    /\ bitcoinNetworkOf(Segwit(<<116, 98>>, 0, 20, "bech32")) = "testnet"
    /\ bitcoinNetworkOf(Segwit(Bc, 17, 20, "bech32m")) = Null
    /\ isSparkAddress(Segwit(SparkPrefix, 1, 33, "bech32m"))
    /\ ~isSparkAddress(Segwit(SparkPrefix, 1, 33, "bech32"))

\* A bit of a friendly TON address that is wrong is noticed (address.ts).
Hash == [i \in 1..32 |-> (37 * i) % 256]
Friendly(tag) ==
    LET body == <<tag, 0>> \o Hash
        crc == crc16Xmodem(body)
    IN  [form |-> "friendly", data |-> body \o <<crc \div 256, crc % 256>>]
Flipped(a, i, b) ==
    [a EXCEPT !.data[i] = IF (@ \div 2^b) % 2 = 0 THEN @ + 2^b ELSE @ - 2^b]
ASSUME TonRules ==
    /\ crc16Xmodem([i \in 1..9 |-> 48 + i]) = 12739   \* the check value of the CRC's definition
    /\ isTonAddress(Friendly(17)) /\ isTonAddress(Friendly(209)) /\ ~isTonAddress(Friendly(16))
    /\ \A i \in {1, 2, 3, 20, 34, 35, 36}, b \in {0, 3, 7} : ~isTonAddress(Flipped(Friendly(17), i, b))

\* An address is of one family, whatever order they are tried in (address.ts).
Legacy == {[form |-> "base58", first |-> f, bytes |-> n, sum |-> s, version |-> v] :
               f \in {"T", "1"}, n \in {4, 25, 32}, s \in BOOLEAN, v \in {0, 5, 65, 111, 196}}
Hex == {[form |-> "hex", digits |-> n] : n \in {39, 40}}
Addresses == Legacy \cup Hex \cup
    {[form |-> "raw"], Friendly(81), Segwit(Bc, 0, 20, "bech32"), Segwit(SparkPrefix, 1, 33, "bech32m")}
Families == {"evm", "solana", "bitcoin", "ton", "tron"}
ASSUME OneFamily ==
    \A a \in Addresses :
        LET of == {f \in Families : validateAddress(f, a)}
        IN  /\ Cardinality(of) <= 1
            /\ detectPaymentFamily(a) \in IF isSparkAddress(a) THEN {"spark"}
                                          ELSE IF of = {} THEN {Null} ELSE of

\* An amount is read to the last millisatoshi, and refused when it has less
\* than one (bolt11.ts): in units of 10^-12 coins nothing is lost.
Text(n) == IF n < 10 THEN <<48 + n>> ELSE <<48 + (n \div 10), 48 + (n % 10)>>
Exponent == (109 :> 9) @@ (117 :> 6) @@ (110 :> 3) @@ (112 :> 0)
ASSUME AmountsAreExact ==
    \A n \in {0, 1, 9, 10, 25, 99} :
        /\ parseAmountToMsat(Text(n)) = [n |-> n, zeros |-> 11]
        /\ \A unit \in DOMAIN Exponent :
               LET msat == parseAmountToMsat(Text(n) \o <<unit>>)
               IN  IF msat = Null THEN unit = 112 /\ n % 10 # 0
                   ELSE IF unit = 112 THEN msat.n * 10 = n /\ msat.zeros = 0
                   ELSE msat = [n |-> n, zeros |-> Exponent[unit] - 1]
        /\ parseAmountToMsat(<<120>> \o Text(n)) = Null

\* The network of an invoice is that of the longest prefix (bolt11.ts, "Ordered
\* longest-first"), and its amount and time are those it was made with.
Time == <<1, 2, 3, 4, 5, 6, 7>>
ASSUME InvoicesAreRead ==
    \A i \in DOMAIN LnPrefixes, amount \in {<<>>, Text(25) \o <<117>>} :
        LET hrp == LnPrefixes[i].prefix \o amount
        IN  /\ decodeBolt11(Encode(hrp, Time \o <<9>>, "bech32")) =
                  [network |-> LnPrefixes[i].network,
                   millisatoshis |-> IF amount = <<>> THEN Null ELSE [n |-> 25, zeros |-> 5],
                   timestamp |-> 2^30 + 2 * 2^25 + 3 * 2^20 + 4 * 2^15 + 5 * 2^10 + 6 * 2^5 + 7]
            /\ decodeBolt11(Encode(hrp, Time, "bech32m")) = Null

\* No satoshi is lost or made up, and more digits than there are satoshis are no
\* amount (uri.ts, "without floating point").
Decimal(whole, places) ==
    [whole |-> whole, frac |-> [i \in 1..places |-> IF i = places THEN 49 ELSE 48]]
ASSUME SatoshisAreExact ==
    \A whole \in {<<>>, Text(0), Text(20)}, places \in 0..9 :
        LET sat == btcToSatoshis(Decimal(whole, places))
        IN  IF places = 9 \/ (whole = <<>> /\ places = 0) THEN sat = Null
            ELSE sat = Number(whole) * 10^8 + (IF places = 0 THEN 0 ELSE 10^(8 - places))

\* A request that is pasted fills in its payee, and its amount when it has one, and
\* only where the send view sends what it asks for (send-view.tsx, "a scanned/copied
\* request just works").
Payee == [form |-> "hex", digits |-> 40]
Contract == [form |-> "hex", digits |-> 40, token |-> TRUE]
Bip21(amount) == [scheme |-> "bitcoin", address |-> Segwit(Bc, 0, 20, "bech32"), amount |-> amount]
Native(value) == [scheme |-> "ethereum", address |-> Payee, call |-> Null, chainId |-> 1, value |-> value]
Transfer == [scheme |-> "ethereum", address |-> Contract, call |-> "transfer", chainId |-> 1,
             payee |-> Payee, uint256 |-> 5]
ASSUME RequestsAreFilledIn ==
    /\ \A amount \in {Null, Decimal(<<>>, 2)} :
           /\ Pasted(Bip21(amount), "bitcoin", FALSE) =
                  [to |-> Bip21(amount).address, amount |-> btcToSatoshis(amount)]
           /\ Pasted(Bip21(amount), "evm", FALSE).to = Bip21(amount)
    /\ \A value \in {Null, 7} :
           /\ Pasted(Native(value), "evm", FALSE) = [to |-> Payee, amount |-> value]
           /\ \A token \in BOOLEAN : Pasted(Native(value), "bitcoin", token).to = Native(value)
           /\ Pasted(Native(value), "evm", TRUE).to = Native(value)

\* The same of a token's transfer. Not so: the recipient that is filled in is the
\* token's contract (README, "Departures").
TransfersAreFilledIn == Pasted(Transfer, "evm", FALSE).to = Payee

=============================================================================
