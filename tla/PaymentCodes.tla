----------------------------- MODULE PaymentCodes -----------------------------
(***************************************************************************)
(* The payment codes a user pastes into the wallet (wdk-web-core/payments):  *)
(* addresses of six families, BOLT11 invoices and BIP-21 and EIP-681         *)
(* requests, and what the send view (popup/views/send-view.tsx) makes of     *)
(* them. Nothing here has state; MCPayments checks the operators against     *)
(* what the formats' standards say, over bounded inputs.                     *)
(*                                                                         *)
(* A string is what its decoder sees of it: a bech32 string is the codes of  *)
(* its human-readable part and the indices of its data characters, a base58  *)
(* one its first letter, its bytes' number and version and whether its       *)
(* checksum holds. The length and the alphabet of a string admit one form.   *)
(***************************************************************************)
EXTENDS Integers, Sequences, SequencesExt, FiniteSets, FiniteSetsExt, TLC, Bitwise

CONSTANT Null   \* no such thing: what does not decode, a parameter that is absent

-----------------------------------------------------------------------------
(* bech32 and bech32m.                                                       *)

Generator == <<996825010, 642813549, 513874426, 1027748829, 705979059>>
ChecksumConst == [bech32 |-> 1, bech32m |-> 734539939]
Foreign == 32   \* a character outside of the charset

polymod(values) ==
    LET tap(chk, i) == IF (chk \div 2^(24 + i)) % 2 = 1 THEN Generator[i] ELSE 0
        step[chk \in Nat, value \in Nat] ==
            FoldSet(LAMBDA i, c : c ^^ tap(chk, i), ((chk % 2^25) * 32) ^^ value, 1..5)
        chk[n \in 0..Len(values)] == IF n = 0 THEN 1 ELSE step[chk[n - 1], values[n]]
    IN  chk[Len(values)]

hrpExpand(hrp) == [i \in DOMAIN hrp |-> hrp[i] \div 32] \o <<0>> \o [i \in DOMAIN hrp |-> hrp[i] % 32]

bech32Decode(code, limit) ==
    LET length == Len(code.hrp) + 1 + Len(code.data)
        kinds == {e \in DOMAIN ChecksumConst :
                     polymod(hrpExpand(code.hrp) \o code.data) = ChecksumConst[e]}
    IN  IF \/ length \notin 8..limit \/ code.mixed
           \/ code.hrp = <<>> \/ Len(code.data) < 6
           \/ Contains(code.data, Foreign) \/ kinds = {}
        THEN Null
        ELSE [hrp |-> code.hrp, words |-> SubSeq(code.data, 1, Len(code.data) - 6),
              encoding |-> CHOOSE e \in kinds : TRUE]

\* Of the accumulator only what the next byte is cut from is kept.
bech32WordsToBytes(words) ==
    LET state[n \in 0..Len(words)] ==
            IF n = 0 THEN [acc |-> 0, bits |-> 0, out |-> <<>>]
            ELSE LET s == state[n - 1]
                     acc == (s.acc % 2^8) * 32 + words[n]
                 IN  IF s.bits + 5 < 8 THEN [s EXCEPT !.acc = acc, !.bits = @ + 5]
                     ELSE [acc |-> acc, bits |-> s.bits - 3,
                           out |-> Append(s.out, (acc \div 2^(s.bits - 3)) % 256)]
        end == state[Len(words)]
    IN  IF end.bits >= 5 \/ end.acc % 2^end.bits # 0 THEN Null ELSE end.out

-----------------------------------------------------------------------------
(* Addresses.                                                                *)

\* Base58Check: the payload of a string whose checksum holds.
base58CheckDecode(a) ==
    IF a.form # "base58" \/ a.bytes < 5 \/ ~a.sum THEN Null
    ELSE [length |-> a.bytes - 4, version |-> a.version]

crc16Xmodem(data) ==
    LET shift[crc \in 0..(2^16 - 1)] == IF crc >= 2^15 THEN ((crc * 2) % 2^16) ^^ 4129 ELSE crc * 2
        eight(crc) == shift[shift[shift[shift[shift[shift[shift[shift[crc]]]]]]]]
        crc[n \in 0..Len(data)] == IF n = 0 THEN 0 ELSE eight(crc[n - 1] ^^ (data[n] * 256))
    IN  crc[Len(data)]

isEvmAddress(a) == a.form = "hex" /\ a.digits = 40

isSolanaAddress(a) == a.form = "base58" /\ a.bytes = 32

BtcHrp == (<<98, 99>> :> "mainnet") @@ (<<116, 98>> :> "testnet") @@ (<<98, 99, 114, 116>> :> "regtest")

segwitNetworkOf(decoded) ==
    LET version == decoded.words[1]
        program == bech32WordsToBytes(Tail(decoded.words))
    IN  IF \/ decoded.words = <<>> \/ version > 16
           \/ decoded.encoding # (IF version = 0 THEN "bech32" ELSE "bech32m")
           \/ program = Null
           \/ version = 0 /\ Len(program) \notin {20, 32}
           \/ Len(program) \notin 2..40
        THEN Null ELSE BtcHrp[decoded.hrp]

bitcoinNetworkOf(a) ==
    LET decoded == bech32Decode(a.code, 90)
        payload == base58CheckDecode(a)
    IN  IF a.form = "bech32" /\ decoded # Null /\ decoded.hrp \in DOMAIN BtcHrp
        THEN segwitNetworkOf(decoded)
        ELSE IF payload = Null \/ payload.length # 21 THEN Null
        ELSE IF payload.version \in {0, 5} THEN "mainnet"
        ELSE IF payload.version \in {111, 196} THEN "testnet" ELSE Null

isTronAddress(a) ==
    LET payload == base58CheckDecode(a)
    IN  payload # Null /\ a.first = "T" /\ payload.length = 21 /\ payload.version = 65

\* The friendly form: tag, workchain, 32 bytes of hash and the CRC.
isTonAddress(a) ==
    \/ a.form = "raw"
    \/ /\ a.form = "friendly" /\ Len(a.data) = 36
       /\ crc16Xmodem(SubSeq(a.data, 1, 34)) = a.data[35] * 256 + a.data[36]
       /\ a.data[1] % 128 \in {17, 81} /\ a.data[2] \in {0, 255}

SparkPrefix == <<115, 112, 97, 114, 107>>

isSparkAddress(a) ==
    LET decoded == bech32Decode(a.code, 256)
    IN  /\ a.form = "bech32" /\ decoded # Null /\ decoded.encoding = "bech32m"
        /\ IsPrefix(SparkPrefix, decoded.hrp)
           \/ decoded.hrp \in {<<115, 112>>, <<115, 112, 114, 116>>}

\* The check of the send view and, as assertValidRecipient, of the worker.
validateAddress(family, a) ==
    CASE family = "evm" -> isEvmAddress(a)
      [] family = "solana" -> isSolanaAddress(a)
      [] family = "bitcoin" -> bitcoinNetworkOf(a) # Null
      [] family = "ton" -> isTonAddress(a)
      [] family = "tron" -> isTronAddress(a)

detectPaymentFamily(a) ==
    CASE isEvmAddress(a) -> "evm"
      [] bitcoinNetworkOf(a) # Null -> "bitcoin"
      [] isSparkAddress(a) -> "spark"
      [] isTronAddress(a) -> "tron"
      [] isTonAddress(a) -> "ton"
      [] isSolanaAddress(a) -> "solana"
      [] OTHER -> Null

-----------------------------------------------------------------------------
(* Invoices. An amount in millisatoshis is n followed by some zeros.         *)

\* lnbcrt, lnbc, lntbs, lntb, in the order they are tried
LnPrefixes ==
    << [prefix |-> <<108, 110, 98, 99, 114, 116>>, network |-> "regtest"],
       [prefix |-> <<108, 110, 98, 99>>, network |-> "mainnet"],
       [prefix |-> <<108, 110, 116, 98, 115>>, network |-> "signet"],
       [prefix |-> <<108, 110, 116, 98>>, network |-> "testnet"] >>

Digit == 48..57
Number(digits) == FoldLeft(LAMBDA n, d : 10 * n + (d - 48), 0, digits)
Zeros == (109 :> 8) @@ (117 :> 5) @@ (110 :> 2)   \* m, u, n; none: whole coins

parseAmountToMsat(amount) ==
    LET bare == Last(amount) \in Digit
        digits == IF bare THEN amount ELSE Front(amount)
        value == Number(digits)
    IN  IF digits = <<>> \/ ~(ToSet(digits) \subseteq Digit) THEN Null
        ELSE IF bare THEN [n |-> value, zeros |-> 11]
        ELSE IF Last(amount) \in DOMAIN Zeros THEN [n |-> value, zeros |-> Zeros[Last(amount)]]
        ELSE IF Last(amount) = 112 /\ value % 10 = 0 THEN [n |-> value \div 10, zeros |-> 0]
        ELSE Null

decodeBolt11(code) ==
    LET decoded == bech32Decode(code, 2048)
        which == SelectInSeq(LnPrefixes, LAMBDA p : IsPrefix(p.prefix, code.hrp))
        amount == SubSeq(code.hrp, Len(LnPrefixes[which].prefix) + 1, Len(code.hrp))
        msat == IF amount = <<>> THEN Null ELSE parseAmountToMsat(amount)
    IN  IF \/ decoded = Null \/ which = 0
           \/ decoded.encoding # "bech32"
           \/ amount # <<>> /\ msat = Null
        THEN Null
        ELSE [network |-> LnPrefixes[which].network, millisatoshis |-> msat,
              timestamp |-> IF Len(decoded.words) < 7 THEN Null
                            ELSE FoldLeft(LAMBDA t, w : 32 * t + w, 0, SubSeq(decoded.words, 1, 7))]

-----------------------------------------------------------------------------
(* Requests: what is pasted, taken apart at its separators. An absent        *)
(* parameter, or a number that is none, is Null.                             *)

\* A decimal amount of coins in units of 10^-8.
btcToSatoshis(amount) ==
    IF amount = Null \/ amount.whole \o amount.frac = <<>> \/ Len(amount.frac) > 8 THEN Null
    ELSE Number(amount.whole) * 10^8
         + Number(amount.frac \o [i \in 1..(8 - Len(amount.frac)) |-> 48])

parseBip21(uri) ==
    IF bitcoinNetworkOf(uri.address) = Null THEN Null
    ELSE [scheme |-> "bip21", family |-> "bitcoin", address |-> uri.address,
          network |-> bitcoinNetworkOf(uri.address), satoshis |-> btcToSatoshis(uri.amount)]

\* The address of a transfer is the token's contract; the payee is a parameter.
parseEip681(uri) ==
    LET base == [scheme |-> "eip681", family |-> "evm", address |-> uri.address,
                 chainId |-> uri.chainId, functionName |-> uri.call]
    IN  IF detectPaymentFamily(uri.address) # "evm" THEN Null
        ELSE IF uri.call = "transfer"
        THEN base @@ [recipient |-> uri.payee, tokenAmount |-> uri.uint256, wei |-> Null]
        ELSE base @@ [recipient |-> Null, tokenAmount |-> Null, wei |-> uri.value]

parseBolt11(uri) ==
    LET invoice == decodeBolt11(uri.address.code)
    IN  IF uri.address.form # "bech32" \/ invoice = Null THEN Null
        ELSE [scheme |-> "bolt11", family |-> "lightning", network |-> invoice.network,
              millisatoshis |-> invoice.millisatoshis, timestamp |-> invoice.timestamp]

parseBare(uri) ==
    LET family == detectPaymentFamily(uri.address)
    IN  IF family = Null THEN Null
        ELSE [scheme |-> "address", family |-> family, address |-> uri.address]

parsePaymentUri(uri) ==
    CASE uri.scheme = "bitcoin" -> parseBip21(uri)
      [] uri.scheme = "ethereum" -> parseEip681(uri)
      [] uri.scheme = "lightning" -> parseBolt11(uri)
      [] OTHER -> IF parseBolt11(uri) # Null THEN parseBolt11(uri) ELSE parseBare(uri)

\* The recipient field takes a request of its own family apart and keeps
\* anything else as it is; the amount field is filled when the request has one.
Pasted(uri, family, token) ==
    LET parsed == parsePaymentUri(uri)
        fits(scheme, of) == parsed # Null /\ parsed.scheme = scheme /\ family = of
    IN  IF fits("bip21", "bitcoin")
        THEN [to |-> parsed.address, amount |-> parsed.satoshis]
        ELSE IF fits("eip681", "evm") /\ ~token
        THEN [to |-> parsed.address, amount |-> parsed.wei]
        ELSE [to |-> uri, amount |-> Null]

=============================================================================
