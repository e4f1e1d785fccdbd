------------------------------ MODULE MCSource ------------------------------
(***************************************************************************)
(* Instances for TLC: a block is two cells, and so is a sector.            *)
(***************************************************************************)
EXTENDS Source

VolumeOf(offset, sector_size, total) ==
    [cipher_mode |-> "xts-plain64", payload_offset |-> offset,
     sector_size |-> sector_size, iv_tweak |-> 0, total_size |-> total]

(***************************************************************************)
(* Two 512-byte units; one and a half of twice the size, so that a read    *)
(* spans units and ends in the cut-off one; units that are not a number of *)
(* sectors, or too large for a buffer; a mode no decryption accepts.       *)
(***************************************************************************)
MCVolumes ==
    { VolumeOf(2, 2, 6), VolumeOf(1, 4, 7), VolumeOf(1, 3, 6), VolumeOf(2, 12, 6),
      [VolumeOf(2, 2, 6) EXCEPT !.cipher_mode = "other"] }

MCOffsets == {0, 3, 7}
=============================================================================
