--------------------------------- MODULE MCBus ---------------------------------
(* Copies of the page at the end of the ROM and the start of the video RAM, *)
(* of the OAM itself, and of the registers, at two offsets, of which the    *)
(* second is that of the DMA register.  The program stores in each of them  *)
(* and in work RAM under both of its addresses, selects banks, and stores   *)
(* words across the registers and into work RAM.                            *)
EXTENDS Bus

Pair == {0, 70}

(* The bytes 128 and 255 are pages too. *)
SamplePages == {128, 254, 255}

Sample ==
  {page * 256 + i : page \in SamplePages, i \in Pair}
    \cup {8192, 49152, 57343, 57344, 65279, 65349}

FewStores ==
  ({DMA_ADDRESS, P1_ADDRESS, 8192, 57344} \X {128, 255})
    \cup ({32768, 32838, 49152, 57343, 65094, 65279, 65349} \X {255})

===============================================================================
