--------------------------- MODULE MCLinuxCpuLoad ---------------------------
EXTENDS LinuxCpuLoad

MCTicking == {"user", "idle"}
=============================================================================
