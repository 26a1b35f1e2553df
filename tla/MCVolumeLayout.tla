---------------------------- MODULE MCVolumeLayout ----------------------------
(* The drives and boot sectors of the run: sizes at which f_mkfs changes   *)
(* its mind, and boot sectors that differ from a good one in one field.    *)
EXTENDS VolumeLayout

MCDrives ==
    {[count |-> n, block |-> b] :
        <<n, b>> \in {<<127, 0>>, <<128, 64>>, <<2048, 2048>>, <<4200, 0>>,
                      <<4200, 64>>, <<8200, 64>>, <<66200, 0>>, <<133000, 64>>}}

Good == [kind |-> "boot", ssize |-> SS, csize |-> 4, nrsv |-> 1, n_fats |-> 2,
         n_rootdir |-> 16, tsect |-> 4200, fatsz |-> 4, root |-> 0,
         fsinfo |-> FALSE]
MCForeign ==
    {Good,
     [Good EXCEPT !.fatsz = 3],
     [Good EXCEPT !.n_rootdir = 0],
     [Good EXCEPT !.csize = 3],
     [Good EXCEPT !.nrsv = 0],
     [Good EXCEPT !.tsect = 8],
     [Good EXCEPT !.csize = 1, !.fatsz = 16]}

=============================================================================
