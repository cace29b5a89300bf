------------------------------- MODULE GameData -------------------------------
(* The registries and the tags a client is sent before it is in the world,    *)
(* src/gamedata/provider.go: one set of them for a run of versions, encoded   *)
(* the way the versions of the run read them.                                 *)
EXTENDS Versions

\* Where each set starts; it is everybody's up to where the next one does.
Sets ==
  {V1_7_2, V1_13, V1_13_1, V1_14, V1_15, V1_16, V1_16_2, V1_17, V1_18, V1_18_2,
   V1_19, V1_19_1, V1_19_3, V1_19_4, V1_20, V1_20_2, V1_20_3, V1_20_5, V1_21,
   V1_21_2, V1_21_4, V1_21_5, V1_21_6, V1_21_7, V1_21_9, V1_21_11, V26_1,
   V26_2, V26_3}

(* bucketFor: the last set that starts at the version or before it.           *)
bucketFor(version) ==
  CHOOSE set \in Sets :
    set <= version /\ \A other \in Sets : other <= version => other <= set

\* The eras of the encodings.
loginRegistriesProtocol == V1_16
dimensionListProtocol == V1_16_2
inlineDimensionTypeProtocol == V1_19
registryCodecProtocol == V1_20_2
combinedRegistryDataProtocol == V1_20_5
entityTypeTagsProtocol == V1_14
namedTagRegistriesProtocol == V1_17

\* What is encoded: which set's, and in which form. NoData is no bytes.
Data(set, form) == [of |-> set, form |-> form]
NoData == Data(Zero, "nothing")

(* The registry codec of a set: what the play login of its versions carries.  *)
registryCodec(set) ==
  IF set < loginRegistriesProtocol \/ set >= registryCodecProtocol THEN NoData
  ELSE IF set < dimensionListProtocol THEN Data(set, "dimension list")
  ELSE Data(set, "registries")

(* The dimension type of a set: its name where the login carries that, and    *)
(* spelled out where it carries the whole of it.                              *)
dimensionType(set) ==
  IF set < loginRegistriesProtocol \/ set >= inlineDimensionTypeProtocol THEN NoData
  ELSE IF set < dimensionListProtocol THEN Data(set, "name")
  ELSE Data(set, "definition")

(* The packets of a set. The oldest has no tags.                              *)
packets(set) ==
  (IF set < registryCodecProtocol THEN <<>>
   ELSE IF set < combinedRegistryDataProtocol
     THEN <<[packet |-> "RegistryData", body |-> Data(set, "combined")]>>
   ELSE <<[packet |-> "RegistryData", body |-> Data(set, "one registry")]>>) \o
  (IF set = V1_7_2 THEN <<>>
   ELSE <<[packet |-> "UpdateTags",
           body |-> Data(set, IF set < entityTypeTagsProtocol THEN "three kinds"
                              ELSE IF set < namedTagRegistriesProtocol THEN "four kinds"
                              ELSE "named")]>>)

PacketsFor(version) == packets(bucketFor(version))
RegistryCodecFor(version) == registryCodec(bucketFor(version))
DimensionTypeFor(version) == dimensionType(bucketFor(version))
===============================================================================
