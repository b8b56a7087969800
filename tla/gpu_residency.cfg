\* Two GPUs with a worker each, an inference and a challenge.
CONSTANTS
  w0 = w0
  w1 = w1
  d0 = d0
  d1 = d1
  t1 = t1
  t2 = t2
  Workers <- MCWorkers
  Devices <- MCDevices
  Device <- MCDevice
  Device0 = d0
  Tasks <- MCTasks
  Handler = Handler
  NoOne = NoOne
  MaxBuilds = 2
SPECIFICATION Spec
INVARIANTS TypeOK LoadingExact InferenceOnSoundEngine IndexBuiltOnce NoDeadlock
PROPERTY EndsUnlessOthersGoOn
