----------------------------- MODULE MCPayload -----------------------------
(***************************************************************************)
(* Instances for TLC: a block is two cells, and so is a sector.            *)
(***************************************************************************)
EXTENDS Payload

VolumeOf(offset, sector_size, iv_tweak, total) ==
    [cipher_mode |-> "xts-plain64", payload_offset |-> offset,
     sector_size |-> sector_size, iv_tweak |-> iv_tweak, total_size |-> total]

(***************************************************************************)
(* Whole and cut-off last units, cut between blocks and within one; 512-   *)
(* byte and larger units, one that is not a number of sectors and one no   *)
(* buffer is to be had for; a payload that is empty or begins past the     *)
(* end; a mode no decryption accepts.                                      *)
(***************************************************************************)
MCVolumes ==
    { VolumeOf(2, 2, 0, 8), VolumeOf(3, 2, 1, 8), VolumeOf(2, 4, 1, 10),
      VolumeOf(2, 4, 0, 8), VolumeOf(1, 4, 0, 6), VolumeOf(4, 2, 0, 3),
      VolumeOf(2, 3, 0, 9), VolumeOf(2, 12, 0, 8),
      [VolumeOf(2, 2, 0, 8) EXCEPT !.cipher_mode = "other"] }

MCOffsets == {0, 1, 3, 6, 15}
MCJumps   == {-3, -1, 2, 11}
=============================================================================
