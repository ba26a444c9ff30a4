------------------------------- MODULE MCFatFile -------------------------------
(* Instances of FatFile for TLC: three clusters of two sectors of two units, two of  *)
(* their FAT entries in one sector and the third in another; a line is two units,    *)
(* and a file of earlier boots has an odd length, so that lines cross its sectors    *)
(* and clusters.                                                                     *)
EXTENDS FatFile

(* A card with n stored units in the file, -1 if there is none, on the first        *)
(* clusters of an order, other files on some of the rest, and FSInfo's counts.      *)
Chain(order, n, c) ==
  LET length == (n + ClusterUnits - 1) \div ClusterUnits
      index == CHOOSE i \in 1 .. NClusters : order[i] = c
  IN  IF index > length THEN Free ELSE IF index = length THEN EOC ELSE order[index + 1]

Volume(order, n, taken, free, last) ==
  [fat |-> [c \in Clusters |-> IF c \in taken THEN EOC ELSE Chain(order, n, c)],
   dir |-> IF n < 0 THEN NoEntry ELSE [sclust |-> IF n = 0 THEN 0 ELSE order[1], size |-> n],
   free |-> free, last |-> last,
   data |-> [s \in Sectors |-> [i \in 0 .. SectorUnits - 1 |->
               LET at == ((CHOOSE k \in 1 .. NClusters : order[k] = s[1]) - 1) * ClusterUnits
                           + s[2] * SectorUnits + i
               IN  IF at < n THEN -1 - at ELSE 0]]]

Up == <<2, 3, 4>>
Mixed == <<3, 4, 2>>

MCVolumes ==
  {Volume(Up, -1, {}, 3, 2), Volume(Up, -1, {2, 3}, Unknown, EOC),   \* no file yet
   Volume(Up, 5, {}, 1, 0), Volume(Mixed, 3, {}, Unknown, 4),        \* a file of earlier boots
   Volume(Mixed, 3, {2, 4}, 0, 4), Volume(Up, 5, {4}, Unknown, 3)}   \* a full volume
=============================================================================
