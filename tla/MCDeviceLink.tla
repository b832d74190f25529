---------------------------- MODULE MCDeviceLink ----------------------------
(* Small instances of DeviceLink.  A session in use is the host's, the     *)
(* device's, or that of a frame on the wire: five ids always leave one.    *)
EXTENDS DeviceLink, TLC

SendersSymmetric == Permutations(Senders)
=============================================================================
