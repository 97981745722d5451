SPECIFICATION Spec
CONSTANTS
  DeviceSds <- MCDeviceSds
INVARIANTS
  TypeOK
  ActiveMeansOpen
  AcceptedIsActive
