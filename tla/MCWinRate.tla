------------------------------ MODULE MCWinRate ------------------------------
(* Small reports: one S1 group of three codecs, and two groups of two.       *)
EXTENDS WinRate

MCCodecOrder == <<"avro", "json", "protobuf">>
MCCodecs == Range(MCCodecOrder)

Row(tier, profile, codec, encode, rt, wire, extra) ==
    [tier |-> tier, profile |-> profile, codec |-> codec,
     score |-> ("encode" :> encode @@ "decode" :> 1 @@ "round_trip" :> rt
                @@ "wire" :> wire @@ "compressed" :> extra @@ "batch" :> extra)]

(* One S1 group of three codecs, with every mix of missing, equal and       *)
(* different numbers.                                                       *)
Levels == 0 .. 2
OneGroup ==
    {<<Row("S1", "small", "json", 1, t[1], w[1], x[1]),
       Row("S1", "small", "avro", 1, t[2], w[2], x[2]),
       Row("S1", "small", "protobuf", 2, t[3], w[3], x[3])>> :
        t \in [1 .. 3 -> Levels], w \in [1 .. 3 -> Levels],
        x \in {<<1, 1, 1>>, <<2, 1, 2>>, <<0, 2, 0>>}}

(* The matrix of two formats, two tiers: their rows interleave. *)
TwoGroups ==
    {<<Row("S0", "small", "json", 1, t[1], 2, 1),
       Row("S3", "small", "json", 2, t[2], 1, x[1]),
       Row("S0", "small", "avro", e, t[3], 1, 1),
       Row("S3", "small", "avro", e, t[4], 2, x[2])>> :
        t \in [1 .. 4 -> Levels], x \in [1 .. 2 -> Levels], e \in Levels}

(* One codec alone: nothing to compare. *)
Alone == {<<Row("S0", "small", "json", 1, 1, 1, 1),
            Row("S3", "small", "json", 1, 1, 1, 1)>>}

MCReports == OneGroup \cup TwoGroups \cup Alone
==============================================================================
