---------------------------- MODULE MCProvisioning ----------------------------
(* Names for the constants of Provisioning, for model checking. *)
EXTENDS Provisioning, TLC

CONSTANTS d1, d2, h1, h2, j1, j2, i1, i2

\* Two on NFS, one on NFS and one on iSCSI, or one on iSCSI and one on NVMe.
Pairs == {f \in [Datastores -> {"nfs", "iscsi", "nvme"}] :
             {f[d] : d \in Datastores} \in {{"nfs"}, {"nfs", "iscsi"}, {"iscsi", "nvme"}}}

\* Datastores, hosts, threads and storage ids are interchangeable.
Symmetry == Permutations(Datastores) \union Permutations(Hosts)
            \union Permutations(Jobs) \union Permutations(Ids)
=============================================================================
