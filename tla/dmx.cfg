SPECIFICATION FairSpec
CONSTANTS
  Ports = {"A"}
  Packets = {"x", "y"}
  Styles = {"Delta", "Constant"}
  RdmPorts = {"A"}
  InputPorts = {"A"}
INVARIANTS TypeOK LineExclusive StopStops ConstantRuns
PROPERTIES NewestPacket PacketUndisturbed CallsReturn RdmTurnsRound ConstantRepeats
