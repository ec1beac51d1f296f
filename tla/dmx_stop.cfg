SPECIFICATION Spec
CONSTANTS
  Ports = {"A"}
  Packets = {}
  Styles = {"Delta", "Constant"}
  RdmPorts = {}
  InputPorts = {}
PROPERTY StoppedIsSilent
