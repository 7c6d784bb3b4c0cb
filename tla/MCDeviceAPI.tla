---------------------------- MODULE MCDeviceAPI ----------------------------
(* Two CUDA devices and one WebGPU device, two blocks, two streams.        *)
EXTENDS DeviceAPI

CONSTANTS p1, p2, s1, s2

MCPtr == {p1, p2}
MCStream == {s1, s2}
=============================================================================
