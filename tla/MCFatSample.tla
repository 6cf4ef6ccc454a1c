----------------------------- MODULE MCFatSample -----------------------------
EXTENDS FatSample

CONSTANTS nand, nand2, sd

\* fatfs_flash, fatfs_sd and two_fatfs_flash, in this order.
MCSamples ==
  {[volumes |-> <<nand>>, rounds |-> 1, ppt |-> {nand}],
   [volumes |-> <<sd>>, rounds |-> 3, ppt |-> {}],
   [volumes |-> <<nand2, nand>>, rounds |-> 1, ppt |-> {nand}]}
=============================================================================
