------------------------------- MODULE Versions -------------------------------
(* The versions of the protocol, src/types/protocol_version.go. A version is  *)
(* its protocol's number; the numbers grow along SupportedProtocolVersions,   *)
(* which is why the code compares versions by them.                           *)
EXTENDS Integers, Sequences

\* What a connection speaks until its handshake, and what an unknown number is.
Zero == 0

V1_7_2 == 4
V1_7_6 == 5
V1_8 == 47
V1_9 == 107
V1_9_1 == 108
V1_9_2 == 109
V1_9_3 == 110
V1_10 == 210
V1_11 == 315
V1_11_1 == 316
V1_12 == 335
V1_12_1 == 338
V1_12_2 == 340
V1_13 == 393
V1_13_1 == 401
V1_13_2 == 404
V1_14 == 477
V1_14_1 == 480
V1_14_2 == 485
V1_14_3 == 490
V1_14_4 == 498
V1_15 == 573
V1_15_1 == 575
V1_15_2 == 578
V1_16 == 735
V1_16_1 == 736
V1_16_2 == 751
V1_16_3 == 753
V1_16_4 == 754
V1_17 == 755
V1_17_1 == 756
V1_18 == 757
V1_18_2 == 758
V1_19 == 759
V1_19_1 == 760
V1_19_3 == 761
V1_19_4 == 762
V1_20 == 763
V1_20_2 == 764
V1_20_3 == 765
V1_20_5 == 766
V1_21 == 767
V1_21_2 == 768
V1_21_4 == 769
V1_21_5 == 770
V1_21_6 == 771
V1_21_7 == 772
V1_21_9 == 773
V1_21_11 == 774
V26_1 == 775
V26_2 == 776
V26_3 == 777

\* Oldest first: the chain that bodies are carried along.
SupportedProtocolVersions ==
  <<V1_7_2, V1_7_6, V1_8, V1_9, V1_9_1, V1_9_2, V1_9_3, V1_10, V1_11,
    V1_11_1, V1_12, V1_12_1, V1_12_2, V1_13, V1_13_1, V1_13_2, V1_14,
    V1_14_1, V1_14_2, V1_14_3, V1_14_4, V1_15, V1_15_1, V1_15_2, V1_16,
    V1_16_1, V1_16_2, V1_16_3, V1_16_4, V1_17, V1_17_1, V1_18, V1_18_2,
    V1_19, V1_19_1, V1_19_3, V1_19_4, V1_20, V1_20_2, V1_20_3, V1_20_5,
    V1_21, V1_21_2, V1_21_4, V1_21_5, V1_21_6, V1_21_7, V1_21_9, V1_21_11,
    V26_1, V26_2, V26_3>>

Supported ==
  {SupportedProtocolVersions[i] : i \in DOMAIN SupportedProtocolVersions}

Latest == SupportedProtocolVersions[Len(SupportedProtocolVersions)]

(* GetProtocolVersionById: a number of no version is ZERO's.                  *)
GetProtocolVersionById(id) == IF id \in Supported THEN id ELSE Zero

IsSupported(version) == version \in Supported

(* protocolVersionIndex, of the versions that are on the chain.               *)
protocolVersionIndex ==
  [version \in Supported |->
     CHOOSE i \in DOMAIN SupportedProtocolVersions :
       SupportedProtocolVersions[i] = version]

\* The step up the chain, of the versions that have one above them.
NextProtocolVersion ==
  [version \in Supported \ {Latest} |->
     SupportedProtocolVersions[protocolVersionIndex[version] + 1]]

\* The step down, of the versions that have one below them.
PreviousProtocolVersion ==
  [version \in Supported \ {SupportedProtocolVersions[1]} |->
     SupportedProtocolVersions[protocolVersionIndex[version] - 1]]

HasConfigurationPhase(version) == version >= V1_20_2
\* Mutant: 1.7.6 is asked to compress, and has no packet for it.
CompressionFrom1_7_6(version) == version >= V1_7_6

HasCompression(version) == version >= V1_8
HasLoginPluginMessages(version) == version >= V1_13
MaySignEncryptionChallenge(version) ==
  IsSupported(version) /\ version >= V1_19 /\ version < V1_19_3
===============================================================================
